---- MODULE Spec2Model ----
(***************************************************************************)
(* Model of the C25K Calendar Creator: the plan builder get_workout_plan   *)
(* of "C25K Calendar Creator/c25k_ics_generator.py", the tables it reads,  *)
(* the date arithmetic it shares with generate_ics, the exporters, the     *)
(* input validation, the progress import, and the runs of the two front    *)
(* ends: main (command line) and C25KPyQtGUI.submit (desktop form).        *)
(*                                                                         *)
(* Representation:                                                         *)
(*  - a calendar date is its proleptic Gregorian ordinal (date.toordinal),  *)
(*    converted to year/month/day the way datetime does when it formats;   *)
(*  - a weight is an integer number of millionths of a kilogram            *)
(*    (WeightScale units per kg), so that lbs * 0.453592 is exact;         *)
(*  - a formatted string with numbers in it is the tuple of its parts;     *)
(*  - text is ASCII: accented letters and the dash of the tables are       *)
(*    written without accent;                                              *)
(*  - None where a number is expected is the empty tuple, a number n the   *)
(*    tuple <<n>>.                                                         *)
(***************************************************************************)
EXTENDS Integers, Sequences, FiniteSets, TLC

VARIABLES user, env, plan, pc, ics_file, inp, files, log, ret

vars == <<user, env, plan, pc, ics_file, inp, files, log, ret>>

---------------------------------------------------------------------------
(* Bounds of the model *)

\* plans of 1..MaxWeeks weeks are built for every days_per_week and rest set
MaxWeeks == 2
\* long plans (the weeks after the 10-entry table) run to MaxLongWeeks weeks
MaxLongWeeks == 12

---------------------------------------------------------------------------
(* Program constants *)

WeightScale == 1000000
LbsToKg == 453592           \* weight * 0.453592, in millionths
MinAge == 5
MaxAge == 120
MinWeight == 30
MaxWeight == 500
MaxPlanWeeks == 52
MaxAlert == 1440
SafetyAge == 60
SafetyWeightKg == 100
DefaultDuration == 30
ReducedDuration == 25
DefaultWeeks == 9
DefaultDaysPerWeek == 3
DefaultHour == 7
DefaultAlert == 30
TableWeeks == 10

Weekdays == <<"Mon", "Tue", "Wed", "Thu", "Fri", "Sat", "Sun">>
WeekdaySet == {Weekdays[i] : i \in 1..7}

---------------------------------------------------------------------------
(* datetime: ordinals, year/month/day, weekday, timedelta *)

IsLeap(y) == (y % 4 = 0) /\ ((y % 100 # 0) \/ (y % 400 = 0))

DaysInMonth(y, m) ==
    IF m = 2 THEN (IF IsLeap(y) THEN 29 ELSE 28)
    ELSE IF m \in {4, 6, 9, 11} THEN 30 ELSE 31

DaysBeforeYear(y) ==
    (y - 1) * 365 + ((y - 1) \div 4) - ((y - 1) \div 100) + ((y - 1) \div 400)

RECURSIVE DaysBeforeMonth(_, _)
DaysBeforeMonth(y, m) ==
    IF m = 1 THEN 0 ELSE DaysBeforeMonth(y, m - 1) + DaysInMonth(y, m - 1)

\* date(y, m, d).toordinal()
ymd2ord(y, m, d) == DaysBeforeYear(y) + DaysBeforeMonth(y, m) + d

\* date.fromordinal(n) as <<year, month, day>>
ord2ymd(n) ==
    LET y == CHOOSE yy \in (n \div 366)..((n \div 365) + 1) :
                 DaysBeforeYear(yy) < n /\ n <= DaysBeforeYear(yy + 1)
        r == n - DaysBeforeYear(y)
        m == CHOOSE mm \in 1..12 :
                 DaysBeforeMonth(y, mm) < r
                 /\ r <= DaysBeforeMonth(y, mm) + DaysInMonth(y, mm)
    IN <<y, m, r - DaysBeforeMonth(y, m)>>

\* date.weekday(): Monday is 0
weekday(d) == (d.ord + 6) % 7

\* the three values user["start_day"] takes: None, a datetime, a date
NoneDay == [kind |-> "None", ord |-> 0, hour |-> 0, minute |-> 0]
datetime(y, m, d) == [kind |-> "datetime", ord |-> ymd2ord(y, m, d), hour |-> 0, minute |-> 0]
date(y, m, d) == [kind |-> "date", ord |-> ymd2ord(y, m, d), hour |-> 0, minute |-> 0]

\* d + timedelta(weeks=w, days=n)
AddDays(d, w, n) == [d EXCEPT !.ord = d.ord + 7 * w + n]

\* dt + timedelta(minutes=n), dt a datetime
AddMinutes(dt, n) ==
    LET t == dt.hour * 60 + dt.minute + n
    IN [dt EXCEPT !.ord = dt.ord + (t \div 1440),
                  !.hour = (t % 1440) \div 60,
                  !.minute = t % 60]

\* d.strftime("%Y-%m-%d")
strftime_ymd(d) == ord2ymd(d.ord)

---------------------------------------------------------------------------
(* The tables of get_workout_details and get_beginner_tip *)

workouts_en == <<
    "Brisk 5-min warmup walk. Then alternate 60 sec jogging and 90 sec walking for 20 min. Hydrate before and after.",
    "Brisk 5-min warmup walk. Then alternate 90 sec jogging, 2 min walking for 20 min. Hydrate before and after.",
    "Brisk 5-min warmup walk. 90 sec jog, 90 sec walk, 3 min jog, 3 min walk, repeat. Hydrate before and after.",
    "Brisk 5-min warmup walk. Jog 3 min, walk 90 sec, jog 5 min, walk 2.5 min, jog 3 min, walk 90 sec, jog 5 min. Hydrate before and after.",
    "Brisk 5-min warmup walk. Jog 5 min, walk 3 min, jog 5 min, walk 3 min, jog 5 min. Hydrate before and after.",
    "Brisk 5-min warmup walk. Jog 8 min, walk 5 min, jog 8 min. Hydrate before and after.",
    "Brisk 5-min warmup walk. Jog 25 min. Hydrate before and after.",
    "Brisk 5-min warmup walk. Jog 28 min. Hydrate before and after.",
    "Brisk 5-min warmup walk. Jog 30 min. Hydrate before and after.",
    "Brisk 5-min warmup walk. Jog 30 min. Hydrate before and after." >>

workouts_es == <<
    "Camine rapido 5 min para calentar. Luego alterne 60 seg corriendo y 90 seg caminando durante 20 min. Hidratese antes y despues.",
    "Camine rapido 5 min para calentar. Luego alterne 90 seg corriendo, 2 min caminando durante 20 min. Hidratese antes y despues.",
    "Camine rapido 5 min para calentar. 90 seg corra, 90 seg camine, 3 min corra, 3 min camine, repita. Hidratese antes y despues.",
    "Camine rapido 5 min para calentar. Corra 3 min, camine 90 seg, corra 5 min, camine 2.5 min, corra 3 min, camine 90 seg, corra 5 min. Hidratese antes y despues.",
    "Camine rapido 5 min para calentar. Corra 5 min, camine 3 min, corra 5 min, camine 3 min, corra 5 min. Hidratese antes y despues.",
    "Camine rapido 5 min para calentar. Corra 8 min, camine 5 min, corra 8 min. Hidratese antes y despues.",
    "Camine rapido 5 min para calentar. Corra 25 min. Hidratese antes y despues.",
    "Camine rapido 5 min para calentar. Corra 28 min. Hidratese antes y despues.",
    "Camine rapido 5 min para calentar. Corra 30 min. Hidratese antes y despues.",
    "Camine rapido 5 min para calentar. Corra 30 min. Hidratese antes y despues." >>

tips_en == <<
    "Remember to stretch before and after your workout!",
    "Wear comfortable shoes and clothing.",
    "Stay hydrated and listen to your body.",
    "Rest is as important as running. Take it easy on rest days!",
    "Track your progress and celebrate small wins.",
    "Invite a friend or family member to join you!",
    "If you feel pain, stop and consult a professional.",
    "Set a reminder so you don't miss your session.",
    "Smile and enjoy the journey!",
    "You're doing great-keep going!" >>

tips_es == <<
    "Recuerda estirar antes y despues de tu entrenamiento!",
    "Usa calzado y ropa comodos.",
    "Mantente hidratado y escucha a tu cuerpo.",
    "El descanso es tan importante como correr. Tomalo con calma en los dias de descanso!",
    "Registra tu progreso y celebra los pequenos logros.",
    "Invita a un amigo o familiar a unirse!",
    "Si sientes dolor, detente y consulta a un profesional.",
    "Pon una alarma para no perder tu sesion.",
    "Sonrie y disfruta el proceso!",
    "Lo estas haciendo genial, sigue asi!" >>

\* get_workout_details(week, day, lang): day is not read
get_workout_details(week, day, lang) ==
    LET workouts == IF lang = "e" THEN workouts_en ELSE workouts_es
    IN IF 1 <= week /\ week <= TableWeeks
       THEN workouts[(week - 1) + 1]
       ELSE IF lang = "e" THEN workouts[0 + 1] ELSE workouts_es[0 + 1]

\* get_beginner_tip(day, lang): tips[(day - 1) % len(tips)]
get_beginner_tip(day, lang) ==
    LET tips == IF lang = "e" THEN tips_en ELSE tips_es
    IN tips[((day - 1) % Len(tips)) + 1]

---------------------------------------------------------------------------
(* fetch_weather_for_session *)

weather_map == <<"Sunny 75F", "Partly Cloudy 72F", "Rainy 68F", "Thunderstorms 70F",
                 "Cloudy 71F", "Showers 65F", "Windy 69F">>

\* env.owm_key: OWM_API_KEY is set (and is not the placeholder);
\* env.owm_reply: what the forecast request does: "error" (the request or its
\* decoding raises), "nolist" (no forecast entry), "forecast" (an entry is found).
\* The forecast the service returns is its own: it differs from place to place.
forecast_for(location) ==
    IF location = "Boston" THEN "Clear sky 70F" ELSE "Light rain 55F"

\* mutant of fetch_weather_for_session: without a key the request is made anyway
\* and a failed request yields "Weather unavailable"
fetch_weather_no_stub(location, d) ==
    IF env.owm_reply = "error" \/ d.kind = "date"
    THEN "Weather unavailable"
    ELSE IF env.owm_reply = "forecast" THEN forecast_for(location)
         ELSE "Weather unavailable"

fetch_weather_for_session(location, d) ==
    IF ~env.owm_key
    THEN weather_map[weekday(d) + 1]
    ELSE IF env.owm_reply = "error" \/ d.kind = "date"
         THEN weather_map[weekday(d) + 1]     \* except Exception: the stub
         ELSE IF env.owm_reply = "forecast"
              THEN forecast_for(location)
              ELSE "Weather unavailable"

---------------------------------------------------------------------------
(* get_workout_plan *)

\* f"{weight:.1f}": the weight in tenths of a kilogram, rounded
format_1f(weight) == (weight + (WeightScale \div 20)) \div (WeightScale \div 10)

\* start_day = user.get("start_day"); if not start_day: datetime(2025, 7, 15)
plan_start_day(u) ==
    IF u.start_day.kind = "None" THEN datetime(2025, 7, 15) ELSE u.start_day

\* mutant of day_offset_of: the days spread over the whole week, (day * 7) // days_per_week
day_offset_spread(day, days_per_week) == (day * 7) \div days_per_week

\* day_offset = day * (7 // days_per_week), day counted from 0
day_offset_of(day, days_per_week) == day * (7 \div days_per_week)

\* one pass of the inner loop: the session of (week, day), both counted from 0
workout_session(u, week, day) ==
    LET day_offset == day_offset_of(day, u.days_per_week)
        session_date == AddDays(plan_start_day(u), week, day_offset)
        workout == get_workout_details(week + 1, day + 1, u.lang)
        tip == get_beginner_tip(day + 1, u.lang)
        weather_str == IF u.location # ""
                       THEN fetch_weather_for_session(u.location, session_date)
                       ELSE ""
    IN [week |-> week + 1,
        day |-> day + 1,
        day_offset |-> day_offset,
        duration |-> DefaultDuration,
        description |-> <<"Follow the Couch to 5K plan - Week", week + 1, u.gender,
                          u.age, format_1f(u.weight), u.hour, u.minute, workout, tip>>,
        workout |-> workout,
        tip |-> tip,
        weather |-> weather_str,
        date |-> strftime_ymd(session_date)]

\* mutant of workout_sessions: the inner loop starts at day 1, range(1, days_per_week)
workout_sessions_from_one(u) ==
    [i \in 1..(u.weeks * (u.days_per_week - 1)) |->
        workout_session(u, (i - 1) \div (u.days_per_week - 1),
                        1 + ((i - 1) % (u.days_per_week - 1)))]

\* for week in range(weeks): for day in range(days_per_week): plan.append(...)
workout_sessions(u) ==
    [i \in 1..(u.weeks * u.days_per_week) |->
        workout_session(u, (i - 1) \div u.days_per_week, (i - 1) % u.days_per_week)]

\* mutant of needs_reduction: the thresholds compared with > instead of >=
needs_reduction_strict(u) == u.age > SafetyAge \/ u.weight > SafetyWeightKg * WeightScale

\* if user["age"] >= 60 or user["weight"] >= 100
needs_reduction(u) == u.age >= SafetyAge \/ u.weight >= SafetyWeightKg * WeightScale

\* mutant of reduce_for_safety: only the age is looked at
reduce_for_safety_by_age(u, p) ==
    IF u.age >= SafetyAge
    THEN [i \in 1..Len(p) |->
            [p[i] EXCEPT !.duration = ReducedDuration,
                         !.description = Append(@, "(Reduced session duration for safety.)")]]
    ELSE p

\* for session in plan: duration = 25, description += " (Reduced ...)"
reduce_for_safety(u, p) ==
    IF needs_reduction(u)
    THEN [i \in 1..Len(p) |->
            [p[i] EXCEPT !.duration = ReducedDuration,
                         !.description = Append(@, "(Reduced session duration for safety.)")]]
    ELSE p

\* mutant of rest_day_wanted: the rest-day set is not consulted
rest_day_any(u, rest_offset) == rest_offset >= u.days_per_week

\* if rest_name in rest_days and rest_offset >= days_per_week
rest_day_wanted(u, rest_offset) ==
    Weekdays[rest_offset + 1] \in u.rest_days /\ rest_offset >= u.days_per_week

\* the rest session of (week, rest_offset), week counted from 0
rest_session(u, week, rest_offset) ==
    [week |-> week + 1,
     day |-> Weekdays[rest_offset + 1],
     day_offset |-> rest_offset,
     duration |-> 0,
     description |-> <<"Rest Day - Week", week + 1, Weekdays[rest_offset + 1],
                       "Rest and recover. Hydrate and stretch.">>,
     workout |-> "Rest Day",
     tip |-> get_beginner_tip(rest_offset, u.lang)]

\* for week in range(weeks): for rest_offset, rest_name in enumerate(Mon..Sun): ...
rest_sessions(u) ==
    LET slots == [i \in 1..(u.weeks * 7) |-> <<(i - 1) \div 7, (i - 1) % 7>>]
        kept == SelectSeq(slots, LAMBDA wo : rest_day_wanted(u, wo[2]))
    IN [i \in 1..Len(kept) |-> rest_session(u, kept[i][1], kept[i][2])]

\* the sort key (s["week"], s["day_offset"]), compared as tuples
key_le(a, b) ==
    a.week < b.week \/ (a.week = b.week /\ a.day_offset <= b.day_offset)

RECURSIVE merge(_, _)
merge(l, r) ==
    IF Len(l) = 0 THEN r
    ELSE IF Len(r) = 0 THEN l
    ELSE IF key_le(Head(l), Head(r))
         THEN <<Head(l)>> \o merge(Tail(l), r)
         ELSE <<Head(r)>> \o merge(l, Tail(r))

\* sorted(plan, key=...): a stable sort
RECURSIVE sorted(_)
sorted(p) ==
    IF Len(p) <= 1 THEN p
    ELSE LET h == Len(p) \div 2
         IN merge(sorted(SubSeq(p, 1, h)), sorted(SubSeq(p, h + 1, Len(p))))

\* mutant of get_workout_plan: the plan is returned in the order it was built
get_workout_plan_unsorted(u) ==
    reduce_for_safety(u, workout_sessions(u)) \o rest_sessions(u)

\* mutant of get_workout_plan: the safety reduction runs after the rest days are added
get_workout_plan_reduce_last(u) ==
    sorted(reduce_for_safety(u, workout_sessions(u) \o rest_sessions(u)))

get_workout_plan(u) ==
    sorted(reduce_for_safety(u, workout_sessions(u)) \o rest_sessions(u))

---------------------------------------------------------------------------
(* get_workout_plan of the first script, src/c25k_ics_generator.py *)

\* for week in range(10)
LegacyWeeks == 10

\* for day_offset in (0, 2, 4):  # Mon, Wed, Fri
legacy_day_offsets == <<0, 2, 4>>

\* the dict appended for (week, day_offset), week counted from 0
legacy_session(u, week, day_offset) ==
    [week |-> week + 1,
     day |-> (day_offset \div 2) + 1,
     day_offset |-> day_offset,
     duration |-> 30,
     description |-> <<"Follow the Couch to 5K plan - Week", week + 1, u.gender, u.age>>]

\* for week in range(10): for day_offset in (0, 2, 4): plan.append(...)
legacy_sessions(u) ==
    LET n == Len(legacy_day_offsets)
    IN [i \in 1..(LegacyWeeks * n) |->
            legacy_session(u, (i - 1) \div n, legacy_day_offsets[((i - 1) % n) + 1])]

\* if user["age"] >= 60 or user["weight"] >= 100: every duration becomes 25
legacy_get_workout_plan(u) ==
    IF u.age >= 60 \/ u.weight >= 100 * WeightScale
    THEN [i \in 1..Len(legacy_sessions(u)) |->
            [legacy_sessions(u)[i] EXCEPT
                !.duration = 25,
                !.description = Append(@, "(Reduced session duration for safety.)")]]
    ELSE legacy_sessions(u)

---------------------------------------------------------------------------
(* generate_ics *)

\* dt.strftime("%Y%m%dT%H%M%S"): the seconds of every datetime here are 0
format_ics_datetime(dt) == ord2ymd(dt.ord) \o <<dt.hour, dt.minute, 0>>

\* session_date.replace(hour=hour, minute=minute) raises TypeError on a date
\* (it has no hour) and ValueError on an hour or minute out of range
replace_raises(d, hour, minute) ==
    d.kind = "date" \/ hour \notin 0..23 \/ minute \notin 0..59

\* one pass of the loop of generate_ics: the VEVENT of a session
ics_event(session, start_day, hour, minute, alert_minutes) ==
    LET session_date == AddDays(start_day, session.week - 1, session.day_offset)
        dt_start == [session_date EXCEPT !.hour = hour, !.minute = minute]
        dt_end == AddMinutes(dt_start, session.duration)
    IN [summary |-> IF session.duration > 0
                    THEN <<"C25K Week", session.week, "- Day", session.day>>
                    ELSE <<"C25K Week", session.week, session.day, "(Rest)">>,
        dtstart |-> format_ics_datetime(dt_start),
        dtend |-> format_ics_datetime(dt_end),
        description |-> session.description,
        notes |-> <<session.workout, session.tip>>,
        valarm |-> alert_minutes # 0 /\ session.duration > 0,
        trigger |-> alert_minutes]

\* the events generate_ics writes, one per session in plan order
generate_ics(p, start_day, hour, minute, alert_minutes) ==
    [i \in 1..Len(p) |-> ics_event(p[i], start_day, hour, minute, alert_minutes)]

---------------------------------------------------------------------------
(* The JSON export: json.dump(plan, jsonfile, ensure_ascii=False, indent=2) *)

\* the keys of a session dict, in the order get_workout_plan inserts them
session_keys(session) ==
    IF "date" \in DOMAIN session
    THEN <<"week", "day", "day_offset", "duration", "description", "workout",
           "tip", "weather", "date">>
    ELSE <<"week", "day", "day_offset", "duration", "description", "workout", "tip">>

\* the Python type of a value of a session dict: week, day_offset and duration
\* are int, day is int in a workout session and str in a rest session, the
\* rest is str
py_type(session, key) ==
    IF key \in {"week", "day_offset", "duration"} THEN "int"
    ELSE IF key = "day" /\ "date" \in DOMAIN session THEN "int"
    ELSE "str"

\* json.dump of one value: an int becomes a number, a str a quoted string
\* (ensure_ascii=False: its characters unchanged)
json_value(session, key) ==
    IF py_type(session, key) = "int"
    THEN [token |-> "number", digits |-> session[key]]
    ELSE [token |-> "string", chars |-> session[key]]

\* json.dump of one session dict: an object, its members in key order
json_object(session) ==
    LET keys == session_keys(session)
    IN [k \in 1..Len(keys) |-> <<keys[k], json_value(session, keys[k])>>]

\* mutant of export_json: rest days are left out, as export_google_fit_csv does
export_json_workouts_only(p) ==
    LET kept == SelectSeq(p, LAMBDA session : session.duration > 0)
    IN [i \in 1..Len(kept) |-> json_object(kept[i])]

\* export_json: the file is a JSON array with one object for each session
export_json(p) == [i \in 1..Len(p) |-> json_object(p[i])]

\* json.load of one value: a number becomes an int, a string a str
json_load_value(v) == IF v.token = "number" THEN v.digits ELSE v.chars

\* json.load of one object: a dict with a key for each member
json_load_object(members) ==
    [key \in {members[k][1] : k \in 1..Len(members)} |->
        json_load_value(
            members[CHOOSE k \in 1..Len(members) : members[k][1] = key][2])]

\* json.load of the file: a list of dicts
json_load(text) == [i \in 1..Len(text) |-> json_load_object(text[i])]

---------------------------------------------------------------------------
(* Text typed at the prompts and in the form.  What Python's str and       *)
(* number conversions do is tabulated for the texts the inputs use; a text *)
(* outside a table is one the conversion rejects or leaves as it is.       *)

\* str.strip()
strip_text == ("  " :> "") @@ (" Sam Lee " :> "Sam Lee")
strip(text) == IF text \in DOMAIN strip_text THEN strip_text[text] ELSE text

\* str.lower()
lower_text ==
    ("M" :> "m") @@ ("I" :> "i") @@ ("E" :> "e") @@ ("J" :> "j") @@ ("Y" :> "y")
    @@ ("Male" :> "male") @@ ("N" :> "n") @@ (".XLSX" :> ".xlsx") @@ ("Yes" :> "yes")
lower(text) == IF text \in DOMAIN lower_text THEN lower_text[text] ELSE text

\* int(text): <<n>>, or <<>> where int raises ValueError
int_text ==
    ("0" :> 0) @@ ("4" :> 4) @@ ("30" :> 30) @@ ("45" :> 45) @@ ("59" :> 59)
    @@ ("60" :> 60) @@ ("70" :> 70) @@ ("99" :> 99) @@ ("100" :> 100)
    @@ ("150" :> 150) @@ ("200" :> 200) @@ ("220" :> 220) @@ ("221" :> 221)
    @@ ("2000" :> 2000) @@ ("-5" :> -5)
int(text) == IF text \in DOMAIN int_text THEN <<int_text[text]>> ELSE <<>>

\* float(text), in millionths: <<x>>, or <<>> where float raises ValueError
float(text) ==
    IF text \in DOMAIN int_text THEN <<int_text[text] * WeightScale>> ELSE <<>>

\* hour, minute = map(int, text.split(":")): <<hour, minute>>, or <<>> where the
\* split does not give two integers
time_text ==
    ("06:30" :> <<6, 30>>) @@ ("23:45" :> <<23, 45>>) @@ ("25:00" :> <<25, 0>>)
    @@ ("07:60" :> <<7, 60>>)
split_time(text) == IF text \in DOMAIN time_text THEN time_text[text] ELSE <<>>

\* datetime.strptime(text, "%Y-%m-%d"): <<datetime>>, or <<>> where the text is
\* not year-month-day or names no day of the calendar
date_text ==
    ("2025-07-19" :> <<2025, 7, 19>>) @@ ("2024-02-26" :> <<2024, 2, 26>>)
    @@ ("2025-02-30" :> <<2025, 2, 30>>) @@ ("2025-13-01" :> <<2025, 13, 1>>)
strptime(text) ==
    IF text \notin DOMAIN date_text THEN <<>>
    ELSE LET t == date_text[text]
         IN IF t[2] \in 1..12 /\ t[3] >= 1 /\ t[3] <= DaysInMonth(t[1], IF t[2] \in 1..12 THEN t[2] ELSE 1)
            THEN <<datetime(t[1], t[2], t[3])>>
            ELSE <<>>

\* [d.strip().capitalize()[:3] for d in text.split(",") if d.strip()]
rest_days_text ==
    ("tue, fri" :> {"Tue", "Fri"}) @@ ("thursday,SAT" :> {"Thu", "Sat"})
    @@ ("mon" :> {"Mon"}) @@ ("," :> {}) @@ ("funday" :> {"Fun"})
split_rest_days(text) ==
    IF text \in DOMAIN rest_days_text THEN rest_days_text[text] ELSE {text}

\* name.replace(" ", "_")
replace_spaces_text == ("Sam Lee" :> "Sam_Lee")
replace_spaces(text) ==
    IF text \in DOMAIN replace_spaces_text THEN replace_spaces_text[text] ELSE text

---------------------------------------------------------------------------
(* get_user_info: the prompts of the command line *)

\* The message get_user_info prints before it returns None, "" when it returns
\* a profile.  a holds the answers typed, in the order of the prompts.  An
\* exception raised on the way (int or float of a text that is no number, the
\* name start_date, which the module never imports) is caught by the except
\* clause around the whole function.
get_user_info_error(a) ==
    IF strip(a.name) = "" THEN "Name is required."
    ELSE IF lower(a.unit) \notin {"", "i", "m"}
    THEN "Please enter 'I' for Imperial or 'M' for Metric."
    ELSE IF int(a.age) = <<>> THEN "An error occurred during user input."
    ELSE IF float(a.weight) = <<>> THEN "An error occurred during user input."
    ELSE IF lower(a.gender) \notin {"m", "male", "f", "female"}
    THEN "Gender must be 'M'/'F' or 'male'/'female'."
    ELSE IF a.time # "" /\ split_time(a.time) = <<>>
    THEN "Invalid time format. Please use HH:MM (24h)."
    ELSE IF lower(a.lang) \notin {"e", "s", ""}
    THEN "Please enter 'E' for English or 'S' for Spanish."
    ELSE IF lower(a.export) \notin {"i", "c", "j", "g", "p", "m", "v", "s", "q", ""}
    THEN "Please enter a valid export option."
    ELSE IF lower(a.start) = "n" THEN "An error occurred during user input."
    ELSE IF lower(a.start) \notin {"", "d"} /\ strptime(lower(a.start)) = <<>>
    THEN "Invalid date format. Use YYYY-MM-DD."
    ELSE ""

\* The profile get_user_info returns for answers it accepts.  Pounds are
\* converted to kilograms; the plan length is get_custom_plan_length(), which
\* returns its defaults; the alert time is asked for the ICS export only and
\* is None otherwise.
get_user_info(a) ==
    LET export == IF lower(a.export) = "" THEN "i" ELSE lower(a.export)
        time == IF a.time = "" THEN <<DefaultHour, 0>> ELSE split_time(a.time)
    IN [name |-> strip(a.name),
        age |-> int(a.age)[1],
        weight |-> IF lower(a.unit) = "m" THEN float(a.weight)[1]
                   ELSE (float(a.weight)[1] \div WeightScale) * LbsToKg,
        gender |-> IF lower(a.gender) \in {"m", "male"} THEN "male" ELSE "female",
        unit |-> IF lower(a.unit) = "m" THEN "m" ELSE "i",
        hour |-> time[1],
        minute |-> time[2],
        lang |-> IF lower(a.lang) = "" THEN "e" ELSE lower(a.lang),
        export |-> export,
        weeks |-> DefaultWeeks,
        days_per_week |-> DefaultDaysPerWeek,
        start_day |-> IF lower(a.start) \in {"", "d"} THEN NoneDay
                      ELSE strptime(lower(a.start))[1],
        location |-> a.location,
        alert_minutes |-> IF export # "i" THEN <<>>
                          ELSE IF a.alert = "" \/ int(a.alert) = <<>> THEN <<DefaultAlert>>
                          ELSE int(a.alert),
        rest_days |-> IF a.rest_days = "" THEN {"Sat", "Sun"}
                      ELSE split_rest_days(a.rest_days),
        email |-> a.email,
        anonymize |-> lower(a.anonymize) = "y"]

---------------------------------------------------------------------------
(* validate_user_input *)

\* mutant of age_in_range: the upper bound is not checked
age_at_least(u) == MinAge <= u.age

\* 5 <= age <= 120
age_in_range(u) == MinAge <= u.age /\ u.age <= MaxAge

\* The message of the ValueError validate_user_input raises, "" when it returns
\* True.  The checks run in the order of the source; int(None) raises, so an
\* alert time of None fails its check.
validate_user_input_error(u) ==
    IF strip(u.name) = "" THEN "Name is required."
    ELSE IF ~age_in_range(u) THEN "Please enter a valid age (5-120)."
    ELSE IF ~(MinWeight * WeightScale <= u.weight /\ u.weight <= MaxWeight * WeightScale)
    THEN "Please enter a valid weight (30-500 lbs/kg)."
    ELSE IF lower(u.gender) \notin {"male", "female", "other"}
    THEN "Gender must be 'male', 'female', or 'other'."
    ELSE IF lower(u.unit) \notin {"i", "m"}
    THEN "Unit must be 'i' (imperial) or 'm' (metric)."
    ELSE IF ~(0 <= u.hour /\ u.hour < 24 /\ 0 <= u.minute /\ u.minute < 60)
    THEN "Session time must be in HH:MM 24-hour format."
    ELSE IF lower(u.lang) \notin {"e", "s"}
    THEN "Language must be 'e' (English) or 's' (Spanish)."
    ELSE IF lower(u.export) \notin {"i", "c", "j", "g", "m"}
    THEN "Export must be one of: i, c, j, g, m."
    ELSE IF ~(1 <= u.weeks /\ u.weeks <= MaxPlanWeeks)
    THEN "Weeks must be between 1 and 52."
    ELSE IF ~(1 <= u.days_per_week /\ u.days_per_week <= 7)
    THEN "Days per week must be between 1 and 7."
    ELSE IF \/ u.alert_minutes = <<>>
            \/ ~(0 <= u.alert_minutes[1] /\ u.alert_minutes[1] <= MaxAlert)
    THEN "Alert minutes must be between 0 and 1440."
    ELSE IF "" \in u.rest_days THEN "Rest days must be a list of day names."
    ELSE ""

\* validate_user_input: True, or the ValueError raised
validate_user_input(u) ==
    LET error == validate_user_input_error(u)
    IN [returned |-> error = "", raised |-> error]

---------------------------------------------------------------------------
(* import_progress and generate_progress_summary *)

\* A file system as import_progress sees it: what is at the path given and
\* what is at the same path under created/.  Each is no file, a workbook, a CSV
\* text or a file that is neither.
NoSuchFile == [exists |-> FALSE, format |-> "none", rows |-> <<>>]

\* the path import_progress reads: for a relative path with nothing at it, the
\* same path under created/ if there is a file
resolve_progress_path(path, fs) ==
    IF ~path.abs /\ ~fs.at_path.exists /\ fs.at_created.exists
    THEN fs.at_created
    ELSE fs.at_path

\* mutant of import_progress: a missing file is not caught
import_progress_uncaught(path, fs) ==
    LET file == resolve_progress_path(path, fs)
    IN IF ~file.exists /\ lower(path.ext) \in {".xlsx", ".csv"}
       THEN [raised |-> "FileNotFoundError", rows |-> <<>>]
       ELSE [raised |-> "", rows |-> IF file.format \in {"xlsx", "csv"} THEN file.rows ELSE <<>>]

\* import_progress(file_path): the rows read, or the exception that leaves it.
\* A workbook that cannot be loaded is skipped (except Exception: pass); a CSV
\* file that is no text raises UnicodeDecodeError out of the function.
import_progress(path, fs) ==
    LET file == resolve_progress_path(path, fs)
        ext == lower(path.ext)
    IN IF ext = ".xlsx"
       THEN IF ~file.exists THEN [raised |-> "", rows |-> <<>>]
            ELSE IF file.format = "xlsx" THEN [raised |-> "", rows |-> file.rows]
            ELSE [raised |-> "", rows |-> <<>>]
       ELSE IF ext = ".csv"
       THEN IF ~file.exists THEN [raised |-> "", rows |-> <<>>]
            ELSE IF file.format = "csv" THEN [raised |-> "", rows |-> file.rows]
            ELSE [raised |-> "UnicodeDecodeError", rows |-> <<>>]
       ELSE [raised |-> "", rows |-> <<>>]

\* generate_progress_summary: <<completed, total>>, <<>> for "No progress data found."
generate_progress_summary(progress_data) ==
    IF Len(progress_data) = 0 THEN <<>>
    ELSE <<Cardinality({i \in 1..Len(progress_data) :
                          lower(strip(progress_data[i].completed)) = "yes"}),
           Len(progress_data)>>

---------------------------------------------------------------------------
(* The steps of main after the plan is built, and what they write and print *)

\* anonymize_user: a copy with the name "Anonymous" and no email when the user
\* asked for it, the profile itself otherwise
anonymize_user(u) ==
    IF u.anonymize THEN [u EXCEPT !.name = "Anonymous", !.email = ""] ELSE u

\* get_output_dir: created/<safe_name>-<age>-<start date>
get_output_dir(u) ==
    <<replace_spaces(u.name), u.age,
      IF u.start_day.kind = "None" THEN <<>> ELSE strftime_ymd(u.start_day)>>

\* weather.get_weather_suggestion: a forecast text, or the text of its except
\* clause when a request fails
get_weather_suggestion(location) ==
    IF env.meteo = "ok"
    THEN "Weather suggestion for your first workout: Forecast"
    ELSE "Weather suggestion for your first workout: Weather: error or unavailable."

\* the header of the Markdown checklist: name, age and start date of
\* anonymize_user(user)
export_markdown_checklist(u) ==
    [name |-> anonymize_user(u).name, age |-> u.age,
     start |-> IF u.start_day.kind = "None" THEN <<>> ELSE strftime_ymd(u.start_day)]

\* the keys an exporter reads from a session with session[key] (a key read
\* with session.get is not among them), by export code: "i" generate_ics,
\* "c" export_csv, "j" export_json (json.dump reads the keys the dict has),
\* "g" export_google_fit_csv, "p" pdf_export.export_to_pdf,
\* "m" export_markdown_checklist, "v" export_voice_prompts,
\* "s" export_to_mobile_app, "a" export_apple_health_csv
session_fields_read(code, session) ==
    IF code = "i"
    THEN {"week", "day_offset", "duration", "day", "description", "workout", "tip"}
    ELSE IF code = "c"
    THEN {"week", "day", "duration", "description", "workout", "tip"}
    ELSE IF code = "j" THEN DOMAIN session
    ELSE IF code = "g" THEN {"duration", "week", "day", "workout", "tip"}
    ELSE IF code = "p"
    THEN {"duration", "description", "week", "day", "date", "workout", "tip"}
    ELSE IF code = "m"
    THEN (IF session.duration > 0 THEN {"duration", "week", "day", "workout", "tip"}
          ELSE {"duration", "week", "day", "tip"})
    ELSE IF code = "v"
    THEN (IF session.duration > 0 THEN {"duration", "week", "day", "workout", "tip"}
          ELSE {"duration"})
    ELSE IF code = "s"
    THEN (IF session.duration > 0
          THEN {"duration", "week", "day", "date", "description"}
          ELSE {"duration"})
    ELSE (IF session.duration > 0 THEN {"duration", "date"} ELSE {"duration"})

\* session[key] raises KeyError for a key the session does not have
\* (pdf_export.export_to_pdf reads session["date"] of every session)
export_to_pdf_raises(p) ==
    \E i \in 1..Len(p) : ~(session_fields_read("p", p[i]) \subseteq DOMAIN p[i])

\* the user block of the PDF: name, age and start date of the profile given
export_to_pdf(u) ==
    [name |-> u.name, age |-> u.age,
     start |-> IF u.start_day.kind = "None" THEN <<>> ELSE strftime_ymd(u.start_day)]

\* the file the exporters of plain text write, by export code
export_file ==
    ("c" :> <<"Couch_to_5K_Reminders.csv">>) @@ ("g" :> <<"Couch_to_5K_GoogleFit.csv">>)
    @@ ("m" :> <<"Couch_to_5K_Checklist.md">>) @@ ("v" :> <<"C25K_Voice_Prompts.txt">>)

\* n times the same line
Repeat(line, n) == [i \in 1..n |-> line]

\* the sessions with duration > 0
workouts_of(p) == SelectSeq(p, LAMBDA session : session.duration > 0)

\* prompt_strava_runkeeper_config: the platform chosen, "" for None
prompt_strava_runkeeper_config ==
    IF env.platform = "s" THEN "strava"
    ELSE IF env.platform = "r" THEN "runkeeper" ELSE ""

\* export_to_mobile_app raises when requests.post cannot connect: the call is
\* in no try block
export_to_mobile_app_raises(p, config) ==
    config # "" /\ Len(workouts_of(p)) > 0 /\ env.mobile = "conn_error"

\* what export_to_mobile_app prints: a line for each workout session uploaded
\* or refused, then the closing line
export_to_mobile_app(p, config) ==
    IF config = "" THEN <<"No mobile app config provided. Skipping export.">>
    ELSE Repeat(IF env.mobile = "ok" THEN "Uploaded" ELSE "Failed to upload",
                Len(workouts_of(p)))
         \o <<"Mobile app export complete.">>

\* prompt_smtp_config raises ValueError when the port typed is no number
prompt_smtp_config_raises == env.smtp = "badport"

\* send_email_reminder for each workout session: every failure to connect, log
\* in or send is caught and reported
send_email_reminders(p) ==
    Repeat(IF env.smtp = "ok" THEN "Email reminder sent." ELSE "Failed to send email.",
           Len(workouts_of(p)))
    \o <<"All session reminders sent!">>

\* the calls of send_email_reminder main makes: one for each session with
\* duration > 0, in plan order, with the week, day and date of the session in
\* the subject and body; delivered tells whether the relay took the mail
reminder_calls(u, p) ==
    LET w == workouts_of(p)
    IN [k \in 1..Len(w) |->
          [to |-> u.email, week |-> w[k].week, day |-> w[k].day, date |-> w[k].date,
           delivered |-> env.smtp = "ok"]]

\* create_progress_tracker: <name>_progress_tracker.xlsx in the output folder
progress_filename(u) == <<u.name, "_progress_tracker.xlsx">>

\* the data rows of the Progress sheet, by the columns week, day and completed
\* (as import_progress reads them back): one for each workout of the plan
\* length, nothing completed yet
tracker_rows(u) ==
    [i \in 1..(u.weeks * u.days_per_week) |->
        [week |-> ((i - 1) \div u.days_per_week) + 1,
         day |-> ((i - 1) % u.days_per_week) + 1,
         completed |-> ""]]

\* the header row of the Progress sheet
tracker_columns ==
    <<"week", "day", "date_completed", "completed", "notes", "Current_Streak",
      "Missed", "Adjust_Plan", "Effort", "Milestone", "Weather", "Motivation",
      "Session_Rating", "Health_Log">>

\* the Progress sheet create_progress_tracker saves: ws.append(columns), then
\* a row appended for each (week, day)
tracker_sheet(u) == <<tracker_columns>> \o tracker_rows(u)

\* mutant of insert_macros: a failed subprocess is started a second time
insert_macros_retry ==
    IF ~env.macro_exists
    THEN <<"[Warning] Macro inserter script not found. Macros not auto-inserted.">>
    ELSE IF env.macro_ok
    THEN <<"Inserting macros into Excel tracker...", "subprocess.run">>
    ELSE <<"Inserting macros into Excel tracker...", "subprocess.run",
           "[Warning] Could not auto-insert macros", "subprocess.run",
           "You can run: python3 c25k_excel_macro_inserter.py to insert macros manually.">>

\* the macro step of main: what it prints, and "subprocess.run" where the
\* inserter is started
insert_macros ==
    IF ~env.macro_exists
    THEN <<"[Warning] Macro inserter script not found. Macros not auto-inserted.">>
    ELSE IF env.macro_ok
    THEN <<"Inserting macros into Excel tracker...", "subprocess.run">>
    ELSE <<"Inserting macros into Excel tracker...", "subprocess.run",
           "[Warning] Could not auto-insert macros",
           "You can run: python3 c25k_excel_macro_inserter.py to insert macros manually.">>

---------------------------------------------------------------------------
(* The profiles and environments the runs start from *)

Kg(n) == n * WeightScale

BaseUser ==
    [name |-> "Alex", age |-> 30, weight |-> Kg(70), gender |-> "male", unit |-> "m",
     hour |-> DefaultHour, minute |-> 0, lang |-> "e", export |-> "i",
     weeks |-> DefaultWeeks, days_per_week |-> DefaultDaysPerWeek,
     start_day |-> NoneDay, location |-> "", alert_minutes |-> <<DefaultAlert>>,
     rest_days |-> {"Sat", "Sun"}, email |-> "", anonymize |-> FALSE]

\* the ages and weights on both sides of the safety thresholds
SafetyCases ==
    {<<a, w>> : a \in {SafetyAge - 1, SafetyAge},
                w \in {Kg(SafetyWeightKg) - 1, Kg(SafetyWeightKg)}}

\* every plan shape: weeks, days per week, rest-day set, safety case
PlanProfiles ==
    {[BaseUser EXCEPT !.weeks = w, !.days_per_week = d, !.rest_days = r,
                      !.age = c[1], !.weight = c[2]] :
        w \in 1..MaxWeeks, d \in 1..7, r \in SUBSET WeekdaySet, c \in SafetyCases}

\* start dates: the default (None), YYYY-MM-DD dates (datetime.strptime), including
\* ones whose plan crosses 29 February and the end of a year, and plain dates
\* (a date, not a datetime: what the form's date picker hands over, and what
\* get_dynamic_start_date returns)
StartDays ==
    {NoneDay, datetime(2025, 7, 15), datetime(2025, 7, 19), datetime(2024, 2, 26),
     datetime(2025, 12, 29), date(2025, 7, 21), date(2024, 12, 30)}

DateProfiles ==
    {[BaseUser EXCEPT !.start_day = s, !.hour = t[1], !.minute = t[2],
                      !.weeks = w, !.days_per_week = d, !.alert_minutes = <<al>>,
                      !.location = loc] :
        s \in StartDays, t \in {<<DefaultHour, 0>>, <<23, 45>>}, w \in 1..MaxWeeks,
        d \in {1, DefaultDaysPerWeek, 7}, al \in {0, DefaultAlert},
        loc \in {"", "Boston"}}

\* plans as long as the workout table and longer, in both languages
LongProfiles ==
    {[BaseUser EXCEPT !.weeks = w, !.days_per_week = d, !.lang = l,
                      !.age = a] :
        w \in TableWeeks..MaxLongWeeks, d \in {1, DefaultDaysPerWeek, 7},
        l \in {"e", "s"}, a \in {30, SafetyAge}}

\* the profiles whose plan is exported as JSON
JsonProfiles ==
    {[BaseUser EXCEPT !.export = "j", !.weeks = w, !.days_per_week = d, !.lang = l,
                      !.age = a, !.location = loc, !.rest_days = r] :
        w \in 1..MaxWeeks, d \in {1, DefaultDaysPerWeek, 7}, l \in {"e", "s"},
        a \in {30, SafetyAge}, loc \in {"", "Boston"},
        r \in {{}, {"Sat", "Sun"}, WeekdaySet}}

\* the plan shape of the first script (10 weeks, 3 days a week), with the ages
\* and weights on both sides of the safety thresholds
LegacyProfiles ==
    {[BaseUser EXCEPT !.weeks = LegacyWeeks, !.days_per_week = Len(legacy_day_offsets),
                      !.rest_days = r, !.age = c[1], !.weight = c[2], !.gender = g] :
        r \in {{}, {"Sat", "Sun"}, {"Fri"}, WeekdaySet}, c \in SafetyCases,
        g \in {"male", "female"}}

Profiles ==
    PlanProfiles \cup DateProfiles \cup LongProfiles \cup JsonProfiles \cup LegacyProfiles

\* What lies outside the program:
\*   owm_key, owm_reply  the OpenWeatherMap key and what its request does;
\*   meteo               the Open-Meteo lookup of get_weather_suggestion;
\*   smtp                the mail relay: "ok", "fail" (connection or login
\*                       fails), "badport" (the port typed is not a number);
\*   mobile              the Strava/Runkeeper API: "ok", "http_error" (a reply
\*                       with an error status), "conn_error" (no connection);
\*   platform            the answer to "Export to [S]trava or [R]unkeeper?";
\*   macro_exists, macro_ok   the macro inserter script and its exit status;
\*   stylesheet          the Workbook of the openpyxl installed has an attribute
\*                       stylesheet (create_progress_tracker reads
\*                       ws.parent.stylesheet.fonts[0]; the library is not
\*                       part of the repository).
NoKeyEnv ==
    [owm_key |-> FALSE, owm_reply |-> "error", meteo |-> "ok", smtp |-> "ok",
     mobile |-> "ok", platform |-> "s", macro_exists |-> TRUE, macro_ok |-> TRUE,
     stylesheet |-> TRUE]

Envs == {NoKeyEnv} \cup
        {[NoKeyEnv EXCEPT !.owm_key = TRUE, !.owm_reply = r] :
            r \in {"error", "nolist", "forecast"}}

---------------------------------------------------------------------------
(* main *)

NoFile == [written |-> FALSE, events |-> <<>>]

\* no answers typed, no form filled: the profile is handed over as it is
NoInput == [entry |-> "none"]

\* no profile yet, and what get_user_info returns when it gives up
NoUser == [kind |-> "None"]

\* no function has returned yet
NoReturn == [done |-> FALSE]

\* What a run has written: its output folder, the names of the files it
\* wrote there, what it put in some of them, the summary it printed and the
\* mails it handed to send_email_reminder.  And
\* the disk under created/: the folders (dirs) and the files (disk: path,
\* the rows of a tracker's Progress sheet, the run that last wrote the file,
\* 0 for the user), now and as they were when the run started (old_dirs, old_disk).
NoFiles ==
    [outdir |-> <<>>, json |-> <<>>, written |-> {}, checklist |-> <<>>, pdf |-> <<>>,
     progress |-> <<>>, sent |-> <<>>, run |-> 1, dirs |-> {}, disk |-> {},
     old_dirs |-> {}, old_disk |-> {}]

\* os.makedirs(outdir, exist_ok=True) of get_output_dir
makedirs(fs, outdir) == [fs EXCEPT !.outdir = outdir, !.dirs = @ \cup {outdir}]

\* open(filename, "w") and write, Workbook.save(filename): the file in the
\* output folder is created, or replaced if there is one
write_file(fs, name, rows) ==
    [fs EXCEPT !.written = @ \cup {name},
               !.disk = {f \in @ : f.path # <<fs.outdir, name>>}
                        \cup {[path |-> <<fs.outdir, name>>, rows |-> rows,
                                run |-> fs.run]}]

\* os.path.exists(filename)
path_exists(disk, path) == \E f \in disk : f.path = path

\* what create_progress_tracker raises, "" if nothing: when it creates the
\* workbook it reads ws.parent.stylesheet
create_progress_tracker_raises(u, fs) ==
    IF ~path_exists(fs.disk, <<fs.outdir, progress_filename(u)>>) /\ ~env.stylesheet
    THEN "AttributeError" ELSE ""

\* mutant of create_progress_tracker: the workbook is built and saved whether
\* the file exists or not
create_progress_tracker_always(u, fs) == write_file(fs, progress_filename(u), tracker_sheet(u))

\* create_progress_tracker(user, outdir): if not os.path.exists(filename) the
\* workbook is built and saved; the file name is returned either way
create_progress_tracker(u, fs) ==
    IF path_exists(fs.disk, <<fs.outdir, progress_filename(u)>>)
    THEN fs
    ELSE write_file(fs, progress_filename(u), tracker_sheet(u))

\* the data rows of the tracker in the output folder: the rows after the
\* header row (sheet.iter_rows(min_row=2))
tracker_on_disk(u, fs) ==
    Tail((CHOOSE f \in fs.disk : f.path = <<fs.outdir, progress_filename(u)>>).rows)

\* get_workout_plan, generate_ics and export_json applied to a profile: the
\* state when a profile has been handed over
Init ==
    /\ user \in Profiles
    /\ env \in Envs
    /\ (user.location = "" => env = NoKeyEnv)
    /\ plan = <<>>
    /\ pc = "profile"
    /\ ics_file = NoFile
    /\ inp = NoInput
    /\ files = NoFiles
    /\ log = <<>>
    /\ ret = NoReturn

\* plan = get_workout_plan(user)
BuildPlan ==
    /\ pc = "profile"
    /\ plan' = get_workout_plan(user)
    /\ pc' = "planned"
    /\ UNCHANGED <<user, env, ics_file, inp, files, log, ret>>

\* start_day = user["start_day"] or datetime(2025, 7, 15); user["start_day"] = start_day;
\* outdir = get_output_dir(user); the weather suggestion if a location was given
SetStartDay ==
    /\ pc = "planned"
    /\ user' = [user EXCEPT !.start_day =
                    IF @.kind = "None" THEN datetime(2025, 7, 15) ELSE @]
    /\ files' = makedirs(files, get_output_dir(user'))
    /\ log' = IF user.location # ""
              THEN Append(log, get_weather_suggestion(user.location))
              ELSE log
    /\ pc' = "export"
    /\ UNCHANGED <<env, plan, ics_file, inp, ret>>

\* if user["export"] == "i": generate_ics(plan, start_day, hour, minute, alert_minutes);
\* an exception of generate_ics ends the export with nothing written (main does
\* not catch it, submit shows it in an error box)
ExportIcs ==
    /\ pc = "export"
    /\ user.export = "i"
    /\ IF Len(plan) > 0 /\ replace_raises(user.start_day, user.hour, user.minute)
       THEN /\ pc' = "crashed"
            /\ log' = Append(log, IF user.start_day.kind = "date"
                                  THEN "TypeError" ELSE "ValueError")
            /\ UNCHANGED <<ics_file, files>>
       ELSE /\ log' = log
            /\ files' = write_file(files, <<"Couch_to_5K_Reminders.ics">>, <<>>)
            /\ ics_file' = [written |-> TRUE,
                            events |-> generate_ics(plan, user.start_day, user.hour,
                                                    user.minute, user.alert_minutes[1])]
            /\ pc' = "exported"
    /\ UNCHANGED <<user, env, plan, inp, ret>>

\* elif user["export"] == "j": export_json(plan, ".../Couch_to_5K_Reminders.json")
ExportJson ==
    /\ pc = "export"
    /\ user.export = "j"
    /\ files' = [write_file(files, <<"Couch_to_5K_Reminders.json">>, <<>>)
                    EXCEPT !.json = export_json(plan)]
    /\ pc' = "exported"
    /\ UNCHANGED <<user, env, plan, ics_file, inp, log, ret>>

Next == BuildPlan \/ SetStartDay \/ ExportIcs \/ ExportJson

Spec == Init /\ [][Next]_vars

---------------------------------------------------------------------------
(* One run of the program: main on the command line, or one press of the   *)
(* form's "Generate Plan and Exports" button.                              *)

\* the answers typed at the prompts of get_user_info
CliBase ==
    [entry |-> "cli", name |-> "Alex", unit |-> "m", age |-> "30", weight |-> "70",
     gender |-> "m", time |-> "", lang |-> "", export |-> "", start |-> "",
     email |-> "", location |-> "", alert |-> "", rest_days |-> "", anonymize |-> ""]

CliVariants ==
    {<<"name", "">>, <<"name", " Sam Lee ">>,
     <<"unit", "">>, <<"unit", "I">>, <<"unit", "x">>,
     <<"age", "59">>, <<"age", "60">>, <<"age", "200">>, <<"age", "-5">>,
     <<"age", "thirty">>,
     <<"weight", "99">>, <<"weight", "100">>, <<"weight", "150">>, <<"weight", "220">>,
     <<"weight", "221">>, <<"weight", "2000">>, <<"weight", "heavy">>,
     <<"gender", "female">>, <<"gender", "other">>,
     <<"time", "06:30">>, <<"time", "25:00">>, <<"time", "07:60">>, <<"time", "7pm">>,
     <<"lang", "s">>, <<"lang", "x">>,
     <<"export", "c">>, <<"export", "J">>, <<"export", "g">>, <<"export", "p">>,
     <<"export", "m">>, <<"export", "v">>, <<"export", "s">>, <<"export", "q">>,
     <<"export", "a">>,
     <<"start", "d">>, <<"start", "N">>, <<"start", "2025-07-19">>,
     <<"start", "2025-02-30">>, <<"start", "tomorrow">>,
     <<"email", "alex@example.org">>,
     <<"location", "Boston">>,
     <<"alert", "0">>, <<"alert", "45">>, <<"alert", "-5">>, <<"alert", "soon">>,
     <<"rest_days", "tue, fri">>, <<"rest_days", "thursday,SAT">>,
     <<"rest_days", "mon">>,
     <<"anonymize", "y">>}

\* the base answers with up to two of them replaced
CliInputs ==
    {[[CliBase EXCEPT ![a[1]] = a[2]] EXCEPT ![b[1]] = b[2]] :
        a \in CliVariants, b \in CliVariants}

\* the values of the form's widgets when the button is pressed: the spin boxes
\* hold integers (the weight in the unit chosen), the date picker a date
GuiBase ==
    [entry |-> "gui", name |-> "Alex", unit |-> "i", age |-> 30, weight |-> 150,
     gender |-> "male", weeks |-> DefaultWeeks, days_per_week |-> DefaultDaysPerWeek,
     start |-> date(2025, 7, 21), time |-> "07:00", export |-> "i", email |-> "",
     location |-> "", anonymize |-> FALSE]

GuiVariants ==
    {<<"name", "">>, <<"name", "Sam Lee">>,
     <<"unit", "m">>,
     <<"age", MinAge>>, <<"age", SafetyAge>>, <<"age", MaxAge>>,
     <<"weight", 65>>, <<"weight", 99>>, <<"weight", 100>>, <<"weight", 220>>,
     <<"weight", 221>>, <<"weight", 300>>, <<"weight", 660>>,
     <<"gender", "female">>, <<"gender", "other">>,
     <<"weeks", 1>>, <<"weeks", MaxWeeks>>,
     <<"days_per_week", 1>>, <<"days_per_week", 7>>,
     <<"start", date(2024, 12, 30)>>,
     <<"time", "06:30">>, <<"time", "25:00">>, <<"time", "7pm">>, <<"time", "">>,
     <<"export", "c">>, <<"export", "j">>, <<"export", "g">>, <<"export", "m">>,
     <<"export", "s">>, <<"export", "a">>,
     <<"email", "alex@example.org">>, <<"email", "alex at home">>,
     <<"location", "Boston">>,
     <<"anonymize", TRUE>>}

\* setRange of the weight spin box: 65..660 lbs, 30..300 kg
weight_in_spin_range(form) ==
    IF form.unit = "i" THEN form.weight \in 65..660 ELSE form.weight \in 30..300

GuiInputs ==
    {form \in {[[GuiBase EXCEPT ![a[1]] = a[2]] EXCEPT ![b[1]] = b[2]] :
                    a \in GuiVariants, b \in GuiVariants} :
        weight_in_spin_range(form)}

\* the network, the mail relay and the macro inserter as one run finds them
RunEnvs ==
    {[owm_key |-> k[1], owm_reply |-> k[2], meteo |-> w, smtp |-> m,
      mobile |-> a[1], platform |-> a[2], macro_exists |-> x[1], macro_ok |-> x[2],
      stylesheet |-> y] :
        y \in BOOLEAN,
        k \in {<<FALSE, "error">>, <<TRUE, "error">>, <<TRUE, "forecast">>},
        w \in {"ok", "fail"},
        m \in {"ok", "fail", "badport"},
        a \in {<<"ok", "s">>, <<"http_error", "s">>, <<"conn_error", "s">>,
               <<"conn_error", "r">>, <<"ok", "x">>},
        x \in {<<TRUE, TRUE>>, <<TRUE, FALSE>>, <<FALSE, FALSE>>}}

\* the parts of the environment a run never touches are left at their defaults
InitRun ==
    /\ inp \in CliInputs \cup GuiInputs
    /\ env \in RunEnvs
    /\ (inp.location = "" => env.owm_key = FALSE /\ env.meteo = "ok")
    /\ (inp.email = "" \/ inp.entry = "gui" => env.smtp = "ok")
    /\ (inp.export # "s" \/ inp.entry = "gui" => env.mobile = "ok" /\ env.platform = "s")
    /\ (inp.entry = "gui" => env.macro_exists /\ env.macro_ok /\ env.meteo = "ok")
    /\ user = NoUser
    /\ plan = <<>>
    /\ pc = "start"
    /\ ics_file = NoFile
    /\ files = NoFiles
    /\ log = <<>>
    /\ ret = NoReturn

\* user = get_user_info(); if not user: print("Missing or invalid information...");
\* return
GetUserInfo ==
    /\ pc = "start"
    /\ inp.entry = "cli"
    /\ LET error == get_user_info_error(inp)
       IN IF error # ""
          THEN /\ log' = log \o <<error, "Missing or invalid information.">>
               /\ pc' = "done"
               /\ UNCHANGED user
          ELSE /\ user' = get_user_info(inp)
               /\ pc' = "profile"
               /\ UNCHANGED log
    /\ UNCHANGED <<env, plan, ics_file, inp, files, ret>>

\* elif user["export"] in "c", "g", "m", "v": the exporters that write the plan
\* as text
ExportText ==
    /\ pc = "export"
    /\ user.export \in DOMAIN export_file
    /\ files' = [write_file(files, export_file[user.export], <<>>) EXCEPT
                    !.checklist = IF user.export = "m"
                                  THEN export_markdown_checklist(user) ELSE @]
    /\ pc' = "exported"
    /\ UNCHANGED <<user, env, plan, ics_file, inp, log, ret>>

\* elif user["export"] == "p": pdf_export.export_to_pdf(plan, user, ...)
ExportPdf ==
    /\ pc = "export"
    /\ user.export = "p"
    /\ IF export_to_pdf_raises(plan)
       THEN /\ pc' = "crashed"
            /\ log' = Append(log, "KeyError")
            /\ UNCHANGED files
       ELSE /\ files' = [write_file(files, <<"Couch_to_5K_Plan.pdf">>, <<>>)
                            EXCEPT !.pdf = export_to_pdf(user)]
            /\ pc' = "exported"
            /\ UNCHANGED log
    /\ UNCHANGED <<user, env, plan, ics_file, inp, ret>>

\* elif user["export"] == "s": config = prompt_strava_runkeeper_config();
\* export_to_mobile_app(plan, user, config)
ExportMobile ==
    /\ pc = "export"
    /\ user.export = "s"
    /\ LET config == prompt_strava_runkeeper_config
       IN IF export_to_mobile_app_raises(plan, config)
          THEN /\ pc' = "crashed"
               /\ log' = Append(log, "requests.exceptions.ConnectionError")
          ELSE /\ pc' = "exported"
               /\ log' = log \o export_to_mobile_app(plan, config)
    /\ UNCHANGED <<user, env, plan, ics_file, inp, files, ret>>

\* elif user["export"] == "q": qr_export.export_qr_code(plan, user, outdir)
ExportQr ==
    /\ pc = "export"
    /\ user.export = "q"
    /\ files' = write_file(files, <<"C25K_QR.png">>, <<>>)
    /\ pc' = "exported"
    /\ UNCHANGED <<user, env, plan, ics_file, inp, log, ret>>

\* "Always output a Markdown checklist with user info"
Checklist ==
    /\ pc = "exported"
    /\ files' = [write_file(files, <<"Couch_to_5K_Checklist.md">>, <<>>)
                    EXCEPT !.checklist = export_markdown_checklist(user)]
    /\ pc' = "checklist"
    /\ UNCHANGED <<user, env, plan, ics_file, inp, log, ret>>

\* if user.get("email"): smtp_config = prompt_smtp_config(); a reminder for each
\* session with duration > 0
Reminders ==
    /\ pc = "checklist"
    /\ IF user.email = ""
       THEN pc' = "reminded" /\ UNCHANGED <<log, files>>
       ELSE IF prompt_smtp_config_raises
       THEN pc' = "crashed" /\ log' = Append(log, "ValueError") /\ UNCHANGED files
       ELSE /\ pc' = "reminded"
            /\ log' = log \o send_email_reminders(plan)
            /\ files' = [files EXCEPT !.sent = reminder_calls(user, plan)]
    /\ UNCHANGED <<user, env, plan, ics_file, inp, ret>>

\* community.share_plan(str(plan), platform="email")
SharePlan ==
    /\ pc = "reminded"
    /\ pc' = "shared"
    /\ UNCHANGED <<user, env, plan, ics_file, inp, files, log, ret>>

\* progress_filename = create_progress_tracker(user, outdir);
\* progress_data = progress.import_progress(progress_filename);
\* print(progress.generate_progress_summary(progress_data))
Track ==
    /\ pc = "shared"
    /\ IF create_progress_tracker_raises(user, files) # ""
       THEN /\ log' = Append(log, create_progress_tracker_raises(user, files))
            /\ pc' = "crashed"
            /\ UNCHANGED files
       ELSE LET fs == create_progress_tracker(user, files)
                tracker == [exists |-> TRUE, format |-> "xlsx",
                            rows |-> tracker_on_disk(user, fs)]
                result == import_progress([abs |-> TRUE, ext |-> ".xlsx"],
                                          [at_path |-> tracker, at_created |-> NoSuchFile])
            IN /\ files' = [fs EXCEPT
                               !.progress = generate_progress_summary(result.rows)]
               /\ log' = Append(log, "Progress summary")
               /\ pc' = "tracked"
    /\ UNCHANGED <<user, env, plan, ics_file, inp, ret>>

\* the macro inserter, then "All done!" and the privacy note
InsertMacros ==
    /\ pc = "tracked"
    /\ log' = log \o insert_macros \o <<"All done!">>
    /\ pc' = "done"
    /\ UNCHANGED <<user, env, plan, ics_file, inp, files, ret>>

\* _validate_email
validate_email(email) == email \in {"", "alex@example.org"}

\* what submit shows instead of building a plan: the warning of
\* _validate_fields, or the error box for a time that is not HH:MM; "" when it
\* goes on
submit_rejects(form) ==
    IF strip(form.name) = "" \/ ~(MinAge <= form.age /\ form.age <= MaxAge)
       \/ ~validate_email(strip(form.email))
    THEN "Please correct the highlighted fields before submitting."
    ELSE IF strip(form.time) = "" THEN "Session time is required."
    ELSE IF split_time(form.time) = <<>> /\ form.time # "07:00"
    THEN "Session time must be in HH:MM format."
    ELSE ""

\* user_input of submit: the weight is the value of the spin box, in the unit
\* chosen
user_input(form) ==
    LET time == IF form.time = "07:00" THEN <<DefaultHour, 0>> ELSE split_time(form.time)
    IN [name |-> form.name, age |-> form.age, weight |-> form.weight * WeightScale,
        gender |-> form.gender, unit |-> form.unit, hour |-> time[1],
        minute |-> time[2], lang |-> "e", export |-> form.export,
        weeks |-> form.weeks, days_per_week |-> form.days_per_week,
        start_day |-> form.start, location |-> form.location,
        alert_minutes |-> <<DefaultAlert>>, rest_days |-> {"Sat", "Sun"},
        email |-> form.email, anonymize |-> form.anonymize]

\* the exception the export of submit raises, "" if none: generate_ics calls
\* replace(hour=..., minute=...) on a date, export_markdown_checklist is called
\* without its user argument
submit_export_raises(u) ==
    IF u.export \in {"i", "m"} THEN "TypeError" ELSE ""

\* the file the export of submit writes, by export code
submit_export_file ==
    ("c" :> <<"Couch_to_5K_Plan.csv">>) @@ ("j" :> <<"Couch_to_5K_Plan.json">>)
    @@ ("g" :> <<"Couch_to_5K_GoogleFit.csv">>)
    @@ ("a" :> <<"Couch_to_5K_Apple_Health.csv">>)

\* C25KPyQtGUI.submit: the whole handler of the button
Submit ==
    /\ pc = "start"
    /\ inp.entry = "gui"
    /\ IF submit_rejects(inp) # ""
       THEN /\ log' = Append(log, submit_rejects(inp))
            /\ pc' = "rejected"
            /\ UNCHANGED <<user, plan, files>>
       ELSE LET u == user_input(inp)
                p == get_workout_plan(u)
            IN /\ user' = u
               /\ plan' = p
               /\ LET fs == makedirs(files, get_output_dir(u))
                      exported ==
                          [(IF u.export \in DOMAIN submit_export_file
                            THEN write_file(fs, submit_export_file[u.export], <<>>)
                            ELSE fs)
                           EXCEPT !.json = IF u.export = "j" THEN export_json(p) ELSE @]
                      warned == IF u.export = "s"
                                THEN <<"Strava/Runkeeper export is not implemented.">>
                                ELSE <<>>
                  IN IF submit_export_raises(u) # ""
                     THEN /\ files' = fs
                          /\ log' = Append(log, submit_export_raises(u))
                          /\ pc' = "error_box"
                     ELSE IF create_progress_tracker_raises(u, exported) # ""
                     THEN /\ files' = exported
                          /\ log' = Append(warned,
                                           create_progress_tracker_raises(u, exported))
                          /\ pc' = "error_box"
                     ELSE /\ files' = create_progress_tracker(u, exported)
                          /\ log' = Append(warned, "Success")
                          /\ pc' = "done"
    /\ UNCHANGED <<env, ics_file, inp, ret>>

NextRun ==
    \/ GetUserInfo \/ BuildPlan \/ SetStartDay
    \/ ExportIcs \/ ExportJson \/ ExportText \/ ExportPdf \/ ExportMobile \/ ExportQr
    \/ Checklist \/ Reminders \/ SharePlan \/ Track \/ InsertMacros
    \/ Submit

SpecRun == InitRun /\ [][NextRun]_vars

---------------------------------------------------------------------------
(* validate_user_input applied to a profile *)

\* values on both sides of every check, and texts in other spellings
ValidateVariants ==
    {<<"name", "">>, <<"name", "  ">>, <<"name", " Sam Lee ">>,
     <<"age", MinAge - 1>>, <<"age", MinAge>>, <<"age", MaxAge>>, <<"age", MaxAge + 1>>,
     <<"weight", Kg(MinWeight) - 1>>, <<"weight", Kg(MinWeight)>>,
     <<"weight", Kg(MaxWeight)>>, <<"weight", Kg(MaxWeight) + 1>>,
     <<"gender", "female">>, <<"gender", "other">>, <<"gender", "Male">>,
     <<"gender", "m">>, <<"gender", "">>,
     <<"unit", "i">>, <<"unit", "M">>, <<"unit", "x">>,
     <<"hour", -1>>, <<"hour", 0>>, <<"hour", 23>>, <<"hour", 24>>,
     <<"minute", -1>>, <<"minute", 59>>, <<"minute", 60>>,
     <<"lang", "s">>, <<"lang", "E">>, <<"lang", "x">>,
     <<"export", "c">>, <<"export", "j">>, <<"export", "g">>, <<"export", "m">>,
     <<"export", "J">>, <<"export", "p">>, <<"export", "s">>, <<"export", "">>,
     <<"weeks", 0>>, <<"weeks", 1>>, <<"weeks", MaxPlanWeeks>>,
     <<"weeks", MaxPlanWeeks + 1>>,
     <<"days_per_week", 0>>, <<"days_per_week", 1>>, <<"days_per_week", 7>>,
     <<"days_per_week", 8>>,
     <<"alert_minutes", <<>> >>, <<"alert_minutes", <<-1>> >>,
     <<"alert_minutes", <<0>> >>, <<"alert_minutes", <<MaxAlert>> >>,
     <<"alert_minutes", <<MaxAlert + 1>> >>,
     <<"rest_days", {}>>, <<"rest_days", {"Tue"}>>, <<"rest_days", {"Sat", ""}>>}

\* the profiles handed to validate_user_input: a valid profile with up to two
\* of its fields replaced
ValidateCandidates ==
    {[[BaseUser EXCEPT ![a[1]] = a[2]] EXCEPT ![b[1]] = b[2]] :
        a \in ValidateVariants, b \in ValidateVariants}

InitValidate ==
    /\ user \in ValidateCandidates
    /\ inp = [entry |-> "validate", user |-> user]
    /\ env = NoKeyEnv
    /\ plan = <<>>
    /\ pc = "validate"
    /\ ics_file = NoFile
    /\ files = NoFiles
    /\ log = <<>>
    /\ ret = NoReturn

\* validate_user_input(user)
Validate ==
    /\ pc = "validate"
    /\ ret' = [done |-> TRUE, value |-> validate_user_input(user)]
    /\ pc' = "validated"
    /\ UNCHANGED <<user, env, plan, ics_file, inp, files, log>>

NextValidate == Validate

SpecValidate == InitValidate /\ [][NextValidate]_vars

---------------------------------------------------------------------------
(* import_progress applied to a path *)

ProgressRows ==
    <<[week |-> "1", day |-> "1", completed |-> "Yes"],
      [week |-> "1", day |-> "2", completed |-> ""]>>

ProgressFiles ==
    {NoSuchFile,
     [exists |-> TRUE, format |-> "xlsx", rows |-> ProgressRows],
     [exists |-> TRUE, format |-> "csv", rows |-> ProgressRows],
     [exists |-> TRUE, format |-> "other", rows |-> <<>>]}

ProgressPaths == [abs : BOOLEAN, ext : {".xlsx", ".XLSX", ".csv", ".txt", ""}]

InitProgress ==
    /\ inp \in {[entry |-> "import", path |-> path,
                  fs |-> [at_path |-> f, at_created |-> g]] :
                    path \in ProgressPaths, f \in ProgressFiles, g \in ProgressFiles}
    /\ user = NoUser
    /\ env = NoKeyEnv
    /\ plan = <<>>
    /\ pc = "import"
    /\ ics_file = NoFile
    /\ files = NoFiles
    /\ log = <<>>
    /\ ret = NoReturn

\* progress = import_progress(file_path); generate_progress_summary(progress)
\* where it returned
ImportProgress ==
    /\ pc = "import"
    /\ LET result == import_progress(inp.path, inp.fs)
       IN /\ ret' = [done |-> TRUE, value |-> result]
          /\ log' = IF result.raised = ""
                    THEN Append(log, generate_progress_summary(result.rows))
                    ELSE log
    /\ pc' = "imported"
    /\ UNCHANGED <<user, env, plan, ics_file, inp, files>>

NextProgress == ImportProgress

SpecProgress == InitProgress /\ [][NextProgress]_vars

---------------------------------------------------------------------------
(* The calendar of the form: update_calendar_highlight, next to the plan   *)
(* get_workout_plan builds from the same values.                           *)

\* The dates update_calendar_highlight gives the workout or the milestone
\* format, as ordinals.  The loop walks the days from the start date on, marks
\* each day whose weekday is not a rest day, and stops when weeks *
\* days_per_week days are marked or weeks * 7 * 2 days have been walked.
update_calendar_highlight(weeks, days_per_week, start, rest_days) ==
    LET walked == [k \in 1..(weeks * 7 * 2) |-> start.ord + (k - 1)]
        free == SelectSeq(walked,
                    LAMBDA o : Weekdays[weekday([ord |-> o]) + 1] \notin rest_days)
        workout_count == IF Len(free) < weeks * days_per_week
                         THEN Len(free) ELSE weeks * days_per_week
    IN {free[k] : k \in 1..workout_count}

\* the values of the weeks, days and start date widgets, and the rest days of
\* the preferences (Sat and Sun unless the preferences file names others),
\* given to get_workout_plan as well
CalendarProfiles ==
    {[BaseUser EXCEPT !.weeks = w, !.days_per_week = d, !.start_day = s,
                      !.rest_days = r] :
        w \in 1..MaxWeeks, d \in 1..7,
        s \in {date(2025, 7, 21), date(2025, 7, 19), date(2024, 12, 30)},
        r \in {{"Sat", "Sun"}, {}, {"Mon", "Wed"}, WeekdaySet}}

InitCalendar ==
    /\ user \in CalendarProfiles
    /\ inp = [entry |-> "calendar"]
    /\ env = NoKeyEnv
    /\ plan = <<>>
    /\ pc = "profile"
    /\ ics_file = NoFile
    /\ files = NoFiles
    /\ log = <<>>
    /\ ret = NoReturn

\* the handler of the valueChanged and dateChanged signals
UpdateCalendarHighlight ==
    /\ pc = "planned"
    /\ inp.entry = "calendar"
    /\ ret' = [done |-> TRUE,
               value |-> update_calendar_highlight(user.weeks, user.days_per_week,
                                                   user.start_day, user.rest_days)]
    /\ pc' = "highlighted"
    /\ UNCHANGED <<user, env, plan, ics_file, inp, files, log>>

NextCalendar == BuildPlan \/ UpdateCalendarHighlight

SpecCalendar == InitCalendar /\ [][NextCalendar]_vars

---------------------------------------------------------------------------
(* The program run again: runs of main one after the other on the same     *)
(* disk, the user marking sessions in the tracker in between.              *)

\* the number of runs
MaxRuns == 2

RerunVariants ==
    {<<"name", "Alex">>, <<"name", " Sam Lee ">>, <<"age", "60">>,
     <<"start", "2025-07-19">>, <<"export", "c">>, <<"alert", "0">>}

\* the answers of a run: the base answers with one of them replaced (or none);
\* or the form, filled for a CSV export of a short plan
RerunInputs ==
    {[CliBase EXCEPT ![a[1]] = a[2]] : a \in RerunVariants}
    \cup {[GuiBase EXCEPT !.export = "c", !.weeks = w[1], !.days_per_week = w[2]] :
            w \in {<<1, DefaultDaysPerWeek>>, <<MaxWeeks, 7>>}}

\* what the user types in the "completed" column of a row of the tracker
Marks == {"Y", "yes"}

InitRerun ==
    /\ inp \in RerunInputs
    /\ env \in {[NoKeyEnv EXCEPT !.stylesheet = y] : y \in BOOLEAN}
    /\ user = NoUser
    /\ plan = <<>>
    /\ pc = "start"
    /\ ics_file = NoFile
    /\ files = NoFiles
    /\ log = <<>>
    /\ ret = NoReturn

\* between two runs the user opens the tracker the run left and marks its
\* first session ("Mark 'Y' in Completed for a green check")
MarkCompleted ==
    /\ pc = "done"
    /\ files.run < MaxRuns
    /\ \E f \in files.disk : \E mark \in Marks :
          /\ f.path = <<files.outdir, progress_filename(user)>>
          /\ f.rows[2].completed = ""
          /\ files' = [files EXCEPT !.disk = (@ \ {f}) \cup
                          {[f EXCEPT !.rows[2].completed = mark, !.run = 0]}]
    /\ pc' = "marked"
    /\ UNCHANGED <<user, env, plan, ics_file, inp, log, ret>>

\* "Just run the script again and enter new details": main starts again on
\* the disk the runs before it left
RunAgain ==
    /\ pc \in {"done", "crashed", "error_box", "marked"}
    /\ files.run < MaxRuns
    /\ inp' \in RerunInputs
    /\ user' = NoUser
    /\ plan' = <<>>
    /\ ics_file' = NoFile
    /\ log' = <<>>
    /\ files' = [NoFiles EXCEPT !.run = files.run + 1,
                                !.dirs = files.dirs, !.disk = files.disk,
                                !.old_dirs = files.dirs, !.old_disk = files.disk]
    /\ pc' = "start"
    /\ UNCHANGED <<env, ret>>

NextRerun ==
    \/ GetUserInfo \/ BuildPlan \/ SetStartDay \/ ExportIcs \/ ExportText
    \/ Checklist \/ Reminders \/ SharePlan \/ Track \/ InsertMacros \/ Submit
    \/ MarkCompleted \/ RunAgain

SpecRerun == InitRerun /\ [][NextRerun]_vars

---------------------------------------------------------------------------
(* Properties *)

\* get_workout_plan has returned
Planned == pc # "profile"

PlanIdx == 1..Len(plan)
WorkoutIdx == {i \in PlanIdx : plan[i].duration > 0}
RestIdx == {i \in PlanIdx : plan[i].duration = 0}
WeekIdx(w) == {i \in PlanIdx : plan[i].week = w}

\* C1: the plan holds exactly weeks * days_per_week sessions with duration > 0,
\* exactly days_per_week of them in each week 1..weeks, whatever the age, the
\* weight and the rest-day set.
C1_WorkoutCount ==
    Planned =>
        /\ Cardinality(WorkoutIdx) = user.weeks * user.days_per_week
        /\ \A w \in 1..user.weeks :
               Cardinality(WeekIdx(w) \cap WorkoutIdx) = user.days_per_week
        /\ \A i \in WorkoutIdx : plan[i].week \in 1..user.weeks

C1_Witness ==
    /\ Planned
    /\ user.weeks = 2 /\ user.days_per_week = 7 /\ user.rest_days = WeekdaySet
    /\ Cardinality(WorkoutIdx) = 14

\* C2: if age >= 60 or weight >= 100 kg every session with duration > 0 has
\* duration 25, otherwise every such session has duration 30; age 60 and weight
\* 100 are on the reduced side, age 59 with a weight just below 100 is not.
C2_SafetyDuration ==
    Planned =>
        \A i \in WorkoutIdx :
            plan[i].duration =
                IF user.age >= 60 \/ user.weight >= 100 * WeightScale THEN 25 ELSE 30

C2_Witness ==
    /\ Planned
    /\ user.age = 59 /\ user.weight = 100 * WeightScale
    /\ WorkoutIdx # {}
    /\ \A i \in WorkoutIdx : plan[i].duration = 25

\* C3: no two sessions of one week have the same day_offset, and consecutive
\* sessions of the returned list are strictly increasing in (week, day_offset),
\* for every rest-day set.
C3_UniqueOffsets ==
    Planned =>
        /\ \A i, j \in PlanIdx :
               (i # j /\ plan[i].week = plan[j].week)
                   => plan[i].day_offset # plan[j].day_offset
        /\ \A i \in 1..(Len(plan) - 1) :
               \/ plan[i].week < plan[i + 1].week
               \/ /\ plan[i].week = plan[i + 1].week
                  /\ plan[i].day_offset < plan[i + 1].day_offset

\* the day offsets of the workout sessions of week w
WorkoutOffsets(w) == {plan[i].day_offset : i \in WeekIdx(w) \cap WorkoutIdx}

\* week w holds a rest session labelled with weekday d
HasRest(w, d) == \E i \in WeekIdx(w) \cap RestIdx : plan[i].day = d

\* C4: in every week a rest session labelled with weekday d is emitted if and
\* only if d is in the rest-day set and d's day offset is not the day_offset of
\* a workout session of that week.
C4_RestIffFreeRestDay ==
    Planned =>
        \A w \in 1..user.weeks : \A o \in 0..6 :
            HasRest(w, Weekdays[o + 1])
                <=> (Weekdays[o + 1] \in user.rest_days /\ o \notin WorkoutOffsets(w))

\* the sessions of week w on day offset o
SlotIdx(w, o) == {i \in WeekIdx(w) : plan[i].day_offset = o}

LastWorkoutOffset == (user.days_per_week - 1) * (7 \div user.days_per_week)

LastWorkout == plan[CHOOSE i \in WorkoutIdx : \A j \in WorkoutIdx : j <= i]

\* C6: the k-th workout of a week (day label k in 1..days_per_week) has
\* day_offset (k - 1) * floor(7 / days_per_week), a value in 0..6; with weeks = 10,
\* days_per_week = 3, age 30 and 70 kg the first session is (week 1, day_offset 0,
\* duration 30) and the last workout is (week 10, day_offset 4).
C6_DayOffset ==
    Planned =>
        /\ \A i \in WorkoutIdx :
               /\ plan[i].day \in 1..user.days_per_week
               /\ plan[i].day_offset = (plan[i].day - 1) * (7 \div user.days_per_week)
               /\ plan[i].day_offset \in 0..6
        /\ \A w \in 1..user.weeks :
               {plan[i].day : i \in WeekIdx(w) \cap WorkoutIdx} = 1..user.days_per_week
        /\ (user.weeks = 10 /\ user.days_per_week = 3 /\ user.age = 30
                /\ user.weight = 70 * WeightScale)
               => /\ plan[1].week = 1 /\ plan[1].day_offset = 0 /\ plan[1].duration = 30
                  /\ LastWorkout.week = 10 /\ LastWorkout.day_offset = 4

C6_Witness ==
    /\ Planned
    /\ user.weeks = 10 /\ user.days_per_week = 3 /\ user.age = 30
    /\ user.weight = 70 * WeightScale
    /\ LastWorkout.day = 3 /\ LastWorkout.day_offset = 4

\* the start date the exporters place the plan on: the user's, else 2025-07-15
StartOrd ==
    IF user.start_day.kind = "None" THEN ymd2ord(2025, 7, 15) ELSE user.start_day.ord

\* date(session) = start_date + (week - 1) weeks + day_offset days
DateOrd(s) == StartOrd + 7 * (s.week - 1) + s.day_offset

\* <<year, month, day>> a is not after b
YmdLE(a, b) ==
    \/ a[1] < b[1]
    \/ a[1] = b[1] /\ a[2] < b[2]
    \/ a[1] = b[1] /\ a[2] = b[2] /\ a[3] <= b[3]

\* sessions i and j are in consecutive weeks on the same day_offset
WeekApart(i, j) ==
    plan[j].week = plan[i].week + 1 /\ plan[j].day_offset = plan[i].day_offset

\* C7: the calendar dates of the sessions, in the order get_workout_plan returns
\* them, never decrease, and two sessions in consecutive weeks with the same
\* day_offset are exactly 7 days apart (as dates of the plan, as the dates stored
\* in the workout sessions, and as the DTSTART dates generate_ics writes).
C7_DatesNonDecreasing ==
    Planned =>
        /\ \A i \in 1..(Len(plan) - 1) :
               YmdLE(ord2ymd(DateOrd(plan[i])), ord2ymd(DateOrd(plan[i + 1])))
        /\ \A i, j \in PlanIdx :
               WeekApart(i, j) =>
                   /\ DateOrd(plan[j]) - DateOrd(plan[i]) = 7
                   /\ (i \in WorkoutIdx /\ j \in WorkoutIdx) =>
                          ymd2ord(plan[j].date[1], plan[j].date[2], plan[j].date[3])
                            - ymd2ord(plan[i].date[1], plan[i].date[2], plan[i].date[3]) = 7
                   /\ ics_file.written =>
                          LET a == ics_file.events[i].dtstart
                              b == ics_file.events[j].dtstart
                          IN ymd2ord(b[1], b[2], b[3]) - ymd2ord(a[1], a[2], a[3]) = 7

C7_Witness ==
    /\ ics_file.written
    /\ user.start_day = datetime(2025, 12, 29)
    /\ \E i, j \in PlanIdx :
          /\ WeekApart(i, j)
          /\ plan[i].duration > 0 /\ plan[j].duration > 0
          /\ plan[i].date = <<2025, 12, 29>> /\ plan[j].date = <<2026, 1, 5>>
          /\ ics_file.events[i].dtstart[1] = 2025
          /\ ics_file.events[j].dtstart[1] = 2026

\* the export step of main is over
ExportOver == pc \in {"exported", "crashed"}

\* C8: for every session generate_ics writes DTSTART on the date start_day +
\* (week - 1) weeks + day_offset days and DTEND duration minutes after DTSTART, and
\* for every workout session that date is the 'date' field get_workout_plan
\* stored, whether the start date was given by the user or defaulted.
C8_IcsDates ==
    (ExportOver /\ user.export = "i") =>
        /\ ics_file.written
        /\ Len(ics_file.events) = Len(plan)
        /\ \A i \in PlanIdx :
               LET ev == ics_file.events[i]
                   startMin == user.hour * 60 + user.minute
                   endMin == startMin + plan[i].duration
               IN /\ SubSeq(ev.dtstart, 1, 3) = ord2ymd(DateOrd(plan[i]))
                  /\ ev.dtstart[4] = user.hour /\ ev.dtstart[5] = user.minute
                  /\ SubSeq(ev.dtend, 1, 3) = ord2ymd(DateOrd(plan[i]) + (endMin \div 1440))
                  /\ ev.dtend[4] * 60 + ev.dtend[5] = endMin % 1440
                  /\ plan[i].duration > 0 => plan[i].date = SubSeq(ev.dtstart, 1, 3)

\* the entry of the 10-entry workout table a plan week reads: its own up to
\* week 10, entry 10 afterwards
TableEntry(week, lang) ==
    LET n == IF week > 10 THEN 10 ELSE week
    IN IF lang = "e" THEN workouts_en[n] ELSE workouts_es[n]

\* C9: the workout text of week w is entry w of the 10-entry table for w in 1..10
\* and entry 10 for every later week, so a plan of more than 10 weeks repeats the
\* week-10 text in weeks 11 and later.
C9_Plateau ==
    Planned =>
        \A i \in WorkoutIdx : plan[i].workout = TableEntry(plan[i].week, user.lang)

\* C10: a session has duration 0 exactly when it is a rest session (weekday
\* label, workout text 'Rest Day') and otherwise has duration 25 or 30; all workout
\* sessions of a plan share one duration; the safety reduction leaves the rest
\* sessions as they were built.
C10_DurationKinds ==
    Planned =>
        /\ \A i \in PlanIdx :
               /\ (plan[i].duration = 0) <=> (plan[i].workout = "Rest Day")
               /\ plan[i].duration \in {0, 25, 30}
        /\ \A i \in RestIdx :
               /\ plan[i].day \in WeekdaySet
               /\ Len(plan[i].description) = 4
        /\ \A i \in WorkoutIdx : plan[i].day \in 1..user.days_per_week
        /\ \A i, j \in WorkoutIdx : plan[i].duration = plan[j].duration

C10_Witness ==
    /\ Planned
    /\ user.age = 60
    /\ \E i \in RestIdx : plan[i].day = "Sun"
    /\ \E i \in WorkoutIdx : plan[i].duration = 25

\* the JSON file has been written
JsonWritten == <<"Couch_to_5K_Reminders.json">> \in files.written

CheckedKeys == {"week", "day", "duration", "workout", "tip"}

ProfileBuilt == pc \notin {"start", "rejected"} /\ user # NoUser

\* the body weight entered, in kilograms (millionths): the number typed or
\* set, converted from pounds when the unit chosen is imperial
EnteredKg ==
    LET number == IF inp.entry = "cli" THEN int(inp.weight)[1] ELSE inp.weight
    IN IF lower(inp.unit) = "m" THEN number * WeightScale ELSE number * LbsToKg

\* C12: on both entry paths the safety rule sees the weight in kilograms: the
\* workout sessions last 25 minutes exactly when the age is at least 60 or the
\* weight entered, taken in kilograms, is at least 100, and 30 minutes
\* otherwise, whatever the unit it was entered in.
C12_WeightInKg ==
    (ProfileBuilt /\ pc # "profile") =>
        \A i \in WorkoutIdx :
            plan[i].duration =
                IF user.age >= SafetyAge \/ EnteredKg >= Kg(SafetyWeightKg)
                THEN ReducedDuration ELSE DefaultDuration

\* the answers C13 calls invalid: an age outside 5..120, a weight outside
\* 30..500, a time that is not HH:MM or names no time of day, a start date
\* that is not a date
AgeOutOfRange == int(inp.age) # <<>> /\ int(inp.age)[1] \notin MinAge..MaxAge
WeightOutOfRange ==
    int(inp.weight) # <<>> /\ int(inp.weight)[1] \notin MinWeight..MaxWeight
TimeInvalid ==
    /\ inp.time # ""
    /\ \/ split_time(inp.time) = <<>>
       \/ split_time(inp.time)[1] \notin 0..23
       \/ split_time(inp.time)[2] \notin 0..59
StartInvalid == lower(inp.start) \notin {"", "d", "n"} /\ strptime(lower(inp.start)) = <<>>

\* C13: on the command line, an age or weight out of range and a malformed or
\* out-of-range time or start date make get_user_info print a message and
\* return None, and main then ends with no plan built and no file written.
C13_InvalidRejected ==
    (/\ inp.entry = "cli" /\ pc # "start"
     /\ (AgeOutOfRange \/ WeightOutOfRange \/ TimeInvalid \/ StartInvalid)) =>
        /\ pc = "done"
        /\ user = NoUser
        /\ Len(log) = 2
        /\ Len(plan) = 0
        /\ files = NoFiles /\ ics_file = NoFile

\* C15: every profile get_user_info returns and every profile submit builds is
\* accepted by validate_user_input.
C15_FrontEndProfilesValid ==
    ProfileBuilt => validate_user_input(user).returned

\* an exception has ended the run
Crashed == pc = "crashed"

NetworkErrors == {"requests.exceptions.ConnectionError", "smtplib.SMTPException"}

\* C16: no failure of a network call ends the run: a run that ends with an
\* exception does not end with one of a weather lookup, a mail or an upload.
C16_NetworkNeverFatal ==
    Crashed => log[Len(log)] \notin NetworkErrors

\* the places of the log where the macro inserter is started
MacroStarts == {i \in 1..Len(log) : log[i] = "subprocess.run"}

\* C19: in one run of main the macro inserter is started at most once and only
\* with the progress tracker written; when it fails, the manual command is
\* printed after it and the run goes on to its end.
C19_MacrosOnce ==
    (inp.entry = "cli" /\ MacroStarts # {}) =>
        /\ Cardinality(MacroStarts) = 1
        /\ progress_filename(user) \in files.written
        /\ (~env.macro_ok =>
                \E i \in MacroStarts, j \in 1..Len(log) :
                    /\ i < j
                    /\ log[j] = "You can run: python3 c25k_excel_macro_inserter.py to insert macros manually.")
        /\ pc = "done"
        /\ log[Len(log)] = "All done!"

\* a run in which the inserter was started and failed has reached its end
C19_Witness ==
    /\ inp.entry = "cli"
    /\ pc = "done"
    /\ ~env.macro_ok
    /\ Cardinality(MacroStarts) = 1
    /\ progress_filename(user) \in files.written

\* the names that appear in what the run wrote: in the name of the output
\* folder, in the checklist, in the PDF, in the name of the progress tracker
WrittenNames ==
    (IF files.outdir # <<>> THEN {files.outdir[1]} ELSE {})
    \cup (IF files.checklist # <<>> THEN {files.checklist.name} ELSE {})
    \cup (IF files.pdf # <<>> THEN {files.pdf.name} ELSE {})
    \cup {f[1] : f \in {g \in files.written : Len(g) = 2}}

\* C20: when the user chooses to anonymize, the name appears in nothing the
\* run writes: not in the checklist, the PDF, the name of the progress tracker
\* or the name of the output folder.
C20_AnonymousExports ==
    (ProfileBuilt /\ user.anonymize) =>
        WrittenNames \cap {user.name, replace_spaces(user.name)} = {}

\* validate_user_input has returned or raised
Validated == pc = "validated"

\* the text fields as validate_user_input compares them: without surrounding
\* blanks, in lower case
ProfileValid ==
    /\ strip(user.name) # ""
    /\ user.age \in MinAge..MaxAge
    /\ Kg(MinWeight) <= user.weight /\ user.weight <= Kg(MaxWeight)
    /\ lower(user.gender) \in {"male", "female", "other"}
    /\ lower(user.unit) \in {"i", "m"}
    /\ user.hour \in 0..23 /\ user.minute \in 0..59
    /\ lower(user.lang) \in {"e", "s"}
    /\ lower(user.export) \in {"i", "c", "j", "g", "m"}
    /\ user.weeks \in 1..MaxPlanWeeks
    /\ user.days_per_week \in 1..7
    /\ Len(user.alert_minutes) = 1 /\ user.alert_minutes[1] \in 0..MaxAlert
    /\ "" \notin user.rest_days

\* the message of the first check that fails, in the order of the claim
FirstFailure ==
    IF strip(user.name) = "" THEN "Name is required."
    ELSE IF user.age \notin MinAge..MaxAge THEN "Please enter a valid age (5-120)."
    ELSE IF user.weight < Kg(MinWeight) \/ user.weight > Kg(MaxWeight)
    THEN "Please enter a valid weight (30-500 lbs/kg)."
    ELSE IF lower(user.gender) \notin {"male", "female", "other"}
    THEN "Gender must be 'male', 'female', or 'other'."
    ELSE IF lower(user.unit) \notin {"i", "m"}
    THEN "Unit must be 'i' (imperial) or 'm' (metric)."
    ELSE IF user.hour \notin 0..23 \/ user.minute \notin 0..59
    THEN "Session time must be in HH:MM 24-hour format."
    ELSE IF lower(user.lang) \notin {"e", "s"}
    THEN "Language must be 'e' (English) or 's' (Spanish)."
    ELSE IF lower(user.export) \notin {"i", "c", "j", "g", "m"}
    THEN "Export must be one of: i, c, j, g, m."
    ELSE IF user.weeks \notin 1..MaxPlanWeeks THEN "Weeks must be between 1 and 52."
    ELSE IF user.days_per_week \notin 1..7 THEN "Days per week must be between 1 and 7."
    ELSE IF Len(user.alert_minutes) = 0 \/ user.alert_minutes[1] \notin 0..MaxAlert
    THEN "Alert minutes must be between 0 and 1440."
    ELSE "Rest days must be a list of day names."

SessionDay(i) == AddDays(plan_start_day(user), plan[i].week - 1, plan[i].day_offset)

\* no forecast can be had: no key is configured, or the request fails
NoForecast == ~env.owm_key \/ env.owm_reply = "error"

Locations == {"Boston", "Seattle", "02134"}

\* C18: when no weather key is configured or the request fails, the weather of
\* every workout session is the stub text of the weekday of its date, and
\* fetch_weather_for_session returns that same text for the date whatever
\* the location.
C18_StubByWeekday ==
    (Planned /\ user.location # "" /\ NoForecast) =>
        \A i \in WorkoutIdx :
            /\ plan[i].weather = weather_map[weekday(SessionDay(i)) + 1]
            /\ \A l \in Locations :
                 fetch_weather_for_session(l, SessionDay(i)) = plan[i].weather

\* a plan has been built for a place while the request fails, with sessions on
\* two different weekdays
C18_Witness ==
    /\ Planned /\ user.location = "Boston"
    /\ env.owm_key /\ env.owm_reply = "error"
    /\ \E i, j \in WorkoutIdx :
        /\ weekday(SessionDay(i)) = 0 /\ plan[i].weather = weather_map[1]
        /\ weekday(SessionDay(j)) = 2 /\ plan[j].weather = weather_map[3]

\* import_progress has returned or raised
Imported == pc = "imported"

\* C17 as stated: whenever there is no file at the path given, import_progress
\* returns an empty list and raises nothing, whatever the extension.
C17_MissingFileEmpty ==
    (Imported /\ ~inp.fs.at_path.exists) =>
        /\ ret.value.raised = ""
        /\ Len(ret.value.rows) = 0

\* C17: whenever there is no file at the path given nor, for a relative path,
\* at the same path under created/, import_progress returns an empty list and
\* raises nothing, whatever the extension.
C17_MissingEverywhereEmpty ==
    (/\ Imported
     /\ ~inp.fs.at_path.exists
     /\ (inp.path.abs \/ ~inp.fs.at_created.exists)) =>
        /\ ret.value.raised = ""
        /\ Len(ret.value.rows) = 0

\* a missing workbook has been asked for and the summary found no data
C17_Witness ==
    /\ Imported
    /\ inp.path.ext = ".XLSX"
    /\ ~inp.fs.at_path.exists /\ ~inp.fs.at_created.exists
    /\ Len(ret.value.rows) = 0
    /\ log = << <<>> >>

\* C21 as stated: generate_ics writes one VEVENT for each session, in plan
\* order, and a VEVENT holds a VALARM block exactly when alert_minutes > 0 and
\* the session is a workout (duration > 0).
C21_ValarmIffPositive ==
    ics_file.written =>
        /\ Len(ics_file.events) = Len(plan)
        /\ \A i \in PlanIdx :
             LET ev == ics_file.events[i]
             IN /\ ev.summary[2] = plan[i].week
                /\ ev.description = plan[i].description
                /\ ev.valarm <=> (user.alert_minutes[1] > 0 /\ plan[i].duration > 0)

\* C22 as stated: each run creates a new output folder: the folder a run
\* writes into did not exist when the run started, so no file a run writes was
\* there before it.
C22_NewFolderEachRun ==
    files.outdir # <<>> =>
        /\ files.outdir \notin files.old_dirs
        /\ \A name \in files.written :
               ~path_exists(files.old_disk, <<files.outdir, name>>)

\* the export codes of the exporters main dispatches to
ExporterCodes == {"i", "c", "j", "g", "p", "m", "v", "s", "a"}

\* C23 as stated: every exporter main dispatches to reads only fields that
\* every session of the plan has, rest sessions included, and no export ends
\* with a KeyError.
C23_NoMissingField ==
    /\ \A i \in PlanIdx : \A code \in ExporterCodes :
           session_fields_read(code, plan[i]) \subseteq DOMAIN plan[i]
    /\ Crashed => log[Len(log)] # "KeyError"

\* C24 as stated: for every start date and every rest session of the plan,
\* the weekday label of the session is the weekday of its calendar date
\* start_date + (week - 1) weeks + day_offset days, which is also the date of
\* the DTSTART generate_ics writes for it.
C24_RestLabelIsWeekday ==
    Planned =>
        \A i \in RestIdx :
            /\ plan[i].day = Weekdays[weekday(SessionDay(i)) + 1]
            /\ ics_file.written =>
                   LET t == ics_file.events[i].dtstart
                   IN plan[i].day = Weekdays[weekday([ord |-> ymd2ord(t[1], t[2], t[3])]) + 1]

\* main has passed its reminder step, or has ended before it
PastReminders == pc \in {"reminded", "shared", "tracked", "done", "crashed"}

\* C25 as stated: when an email address is given, main calls
\* send_email_reminder exactly once for each workout session, in plan order,
\* and never for a rest session; a failed send does not keep the later ones
\* from being made.
C25_OneReminderPerWorkout ==
    (inp.entry = "cli" /\ user # NoUser /\ user.email # "" /\ PastReminders) =>
        /\ Len(files.sent) = Cardinality(WorkoutIdx)
        /\ \A k \in 1..Len(files.sent) :
               LET i == CHOOSE j \in WorkoutIdx :
                            Cardinality({h \in WorkoutIdx : h < j}) = k - 1
               IN /\ files.sent[k].to = user.email
                  /\ files.sent[k].week = plan[i].week
                  /\ files.sent[k].day = plan[i].day
                  /\ files.sent[k].date = plan[i].date

\* the run is over: main has returned or an exception has ended it
RunEnded == pc \in {"done", "crashed"}

ChecklistName == <<"Couch_to_5K_Checklist.md">>

\* C26 as stated: if get_user_info returns None, main ends with no plan built,
\* no output folder created and no file written; otherwise, for every export
\* code, the plan is built before the output folder is created, the folder
\* before anything is written, and the run always ends with the Markdown
\* checklist written and the progress tracker created after it.
C26_MainOrder ==
    inp.entry = "cli" =>
        /\ user = NoUser =>
               /\ Len(plan) = 0
               /\ files.dirs = {} /\ files.disk = {} /\ files.written = {}
               /\ ~ics_file.written
        /\ user # NoUser =>
               /\ files.outdir # <<>> => Len(plan) > 0
               /\ files.written # {} => files.outdir # <<>>
               /\ progress_filename(user) \in files.written
                      => ChecklistName \in files.written
               /\ RunEnded =>
                      /\ ChecklistName \in files.written
                      /\ progress_filename(user) \in files.written

\* the calendar has been highlighted
Highlighted == pc = "highlighted"

\* the dates of the workout sessions of the plan, as ordinals
WorkoutDates ==
    {ymd2ord(plan[i].date[1], plan[i].date[2], plan[i].date[3]) : i \in WorkoutIdx}

\* C27 as stated: for the same weeks, days per week, start date and rest days
\* the dates update_calendar_highlight marks as workout or milestone days are
\* the dates of the workout sessions of get_workout_plan, and there are
\* weeks * days_per_week of them for every rest-day set.
C27_CalendarShowsPlan ==
    Highlighted =>
        /\ ret.value = WorkoutDates
        /\ Cardinality(ret.value) = user.weeks * user.days_per_week

\* the rows of the tracker the tracker itself treats as completed: its
\* conditional formatting and the formulas of the macro inserter test D = "Y"
MarkedRows ==
    LET rows == tracker_on_disk(user, files)
    IN {k \in 1..Len(rows) : rows[k].completed = "Y"}

\* C28 as stated: the completed count generate_progress_summary reports after
\* import_progress has read the tracker is the number of rows marked 'Y'.
C28_MarkedRowsCounted ==
    (pc = "tracked" /\ files.progress # <<>>) =>
        files.progress[1] = Cardinality(MarkedRows)

\* create_progress_tracker has returned: in main, and at the end of submit
TrackerReturned == pc = "tracked" \/ (inp.entry = "gui" /\ pc = "done")

\* the file at a path
FileAt(disk, path) == CHOOSE f \in disk : f.path = path

\* C29: if the tracker file is in the output folder already,
\* create_progress_tracker leaves it as it is and returns its path; when it
\* creates the file, the Progress sheet holds the header row and then
\* exactly weeks * days_per_week data rows, one for each workout (week, day)
\* in increasing order, and no row for a rest day.
C29_TrackerKeptOrBuilt ==
    TrackerReturned =>
        LET path == <<files.outdir, progress_filename(user)>>
            n == user.weeks * user.days_per_week
        IN /\ path_exists(files.disk, path)
           /\ inp.entry = "cli" =>
                  files.progress = <<files.progress[1], Len(FileAt(files.disk, path).rows) - 1>>
           /\ IF path_exists(files.old_disk, path)
              THEN FileAt(files.disk, path) = FileAt(files.old_disk, path)
              ELSE LET sheet == FileAt(files.disk, path).rows
                   IN /\ sheet[1] = tracker_columns
                      /\ Len(sheet) = 1 + n
                      /\ \A k \in 1..n :
                             /\ sheet[k + 1].week = ((k - 1) \div user.days_per_week) + 1
                             /\ sheet[k + 1].day = ((k - 1) % user.days_per_week) + 1
                             /\ sheet[k + 1].day \in 1..user.days_per_week
                             /\ sheet[k + 1].completed = ""
                      /\ \A w \in 1..user.weeks : \A d \in 1..user.days_per_week :
                             Cardinality({k \in 2..Len(sheet) :
                                 sheet[k].week = w /\ sheet[k].day = d}) = 1

\* a second run has found the tracker of the first, marked by the user in
\* between, in its output folder and has left the mark in it
C29_Witness ==
    /\ pc = "tracked"
    /\ files.run = 2
    /\ LET path == <<files.outdir, progress_filename(user)>>
       IN /\ path_exists(files.old_disk, path)
          /\ FileAt(files.disk, path).rows[2].completed = "Y"
          /\ FileAt(files.disk, path).run = 0

\* the (week, day, day_offset, duration) of each session of p, in order
schedule_of(p) ==
    [i \in 1..Len(p) |-> <<p[i].week, p[i].day, p[i].day_offset, p[i].duration>>]

\* C30: for weeks = 10 and days_per_week = 3, whatever the age and the weight,
\* the workout sessions of the plan built by the current get_workout_plan have,
\* in order, the same (week, day, day_offset, duration) as the 30 sessions the
\* get_workout_plan of the first script builds for the same user.
C30_SameAsLegacy ==
    (pc # "profile" /\ user.weeks = 10 /\ user.days_per_week = 3)
        => /\ Len(legacy_get_workout_plan(user)) = 30
           /\ schedule_of(workouts_of(plan)) = schedule_of(legacy_get_workout_plan(user))

\* a 10-week, 3-day plan has been built for a user of 59 who weighs 100 kg and
\* rests on every weekday left, Friday's rest day sharing its offset with day 3
C30_Witness ==
    /\ pc = "planned" /\ user.weeks = 10 /\ user.days_per_week = 3
    /\ user.age = 59 /\ user.weight = 100 * WeightScale
    /\ user.rest_days = WeekdaySet
    /\ Len(plan) = 70 /\ Len(workouts_of(plan)) = 30
    /\ \A i \in 1..30 : workouts_of(plan)[i].duration = 25

====
